---- MODULE Spec2Model ----
(***************************************************************************)
(* A model of validate.ts: the dependency graph, the static validator      *)
(* `validate` and the live validator `liveValidate`.                       *)
(*                                                                         *)
(* Granularity.  JavaScript runs one task of the event loop at a time and  *)
(* drains the promise job queue after it, so an action of this model is    *)
(* one task together with every promise reaction it triggers: the call of  *)
(* `validate` itself, the settling of a caller-supplied promise (a field   *)
(* value, a validator's result) and the firing of a timer.                 *)
(***************************************************************************)
EXTENDS Integers, Sequences, FiniteSets, TLC

(***************************************************************************)
(* Generic helpers on insertion-ordered collections (ES2015 Set and Map    *)
(* iterate in insertion order, so a Set is a duplicate-free sequence).     *)
(***************************************************************************)
Range(seq) ==
    { seq[i] : i \in 1..Len(seq) }

SetAdd(seq, x) ==
    IF x \in Range(seq) THEN seq ELSE Append(seq, x)

SetDelete(seq, x) ==
    SelectSeq(seq, LAMBDA y : y # x)

RECURSIVE SetFromSeq(_)
SetFromSeq(seq) ==
    IF seq = <<>> THEN <<>>
    ELSE SetAdd(SetFromSeq(SubSeq(seq, 1, Len(seq) - 1)), seq[Len(seq)])

MapSet(map, k, v) ==
    [x \in DOMAIN map \cup {k} |-> IF x = k THEN v ELSE map[x]]

EmptyMap ==
    [x \in {} |-> <<>>]

(***************************************************************************)
(* JavaScript values.  A string is its sequence of characters, so that     *)
(* trimming is computed and not assumed.                                   *)
(***************************************************************************)
Null ==
    [t |-> "null"]

Undefined ==
    [t |-> "undefined"]

Str(chars) ==
    [t |-> "string", s |-> chars]

Arr(items) ==
    [t |-> "array", items |-> items]

PromiseOf(v) ==
    [t |-> "promise", to |-> v]

IsWhitespace(c) ==
    c \in {" ", "\t", "\n"}

RECURSIVE TrimStart(_)
TrimStart(chars) ==
    IF chars # <<>> /\ IsWhitespace(Head(chars)) THEN TrimStart(Tail(chars)) ELSE chars

RECURSIVE TrimEnd(_)
TrimEnd(chars) ==
    IF chars # <<>> /\ IsWhitespace(chars[Len(chars)])
    THEN TrimEnd(SubSeq(chars, 1, Len(chars) - 1))
    ELSE chars

Trim(chars) ==
    TrimEnd(TrimStart(chars))

\* utils.ts isEmpty: `value == null`, a string that trims to nothing, an empty array.
isEmpty(value) ==
    CASE value.t \in {"null", "undefined"} -> TRUE
      [] value.t = "string" /\ Len(Trim(value.s)) = 0 -> TRUE
      [] value.t = "array" /\ Len(value.items) = 0 -> TRUE
      [] OTHER -> FALSE

(***************************************************************************)
(* Errors.                                                                 *)
(***************************************************************************)
NoError ==
    [type |-> "none"]

\* The ValidationError with which validator `idx` of field `key` rejects.
ValidationError(key, idx) ==
    [type |-> "ValidationError", key |-> key, idx |-> idx]

ValidationTimeoutError ==
    [type |-> "ValidationTimeoutError"]

RequiredValidationError ==
    [type |-> "RequiredValidationError"]

\* The aggregated error thrown by validate; its entries are the variable errors.
ValidationAggregateError ==
    [type |-> "ValidationAggregateError"]

\* An exception that is no ValidationError, thrown by validator `idx` of field `key`.
PlainError(key, idx) ==
    [type |-> "Error", key |-> key, idx |-> idx]

NoSuchNodeGraphError(node) ==
    [type |-> "NoSuchNodeGraphError", node |-> node]

NoSuchEdgeGraphError(node) ==
    [type |-> "NoSuchEdgeGraphError", node |-> node]

GraphCycleError(cycle) ==
    [type |-> "GraphCycleError", cycle |-> cycle]

\* `e instanceof ValidationError`: the class and its subclasses.
InstanceOfValidationError(e) ==
    e.type \in {"ValidationError", "ValidationTimeoutError",
                "RequiredValidationError", "ValidationAggregateError"}

(***************************************************************************)
(* Dependency graph (dependency-graph/graph.ts, dependency-graph/utils.ts).*)
(* nodes: the keys of the node map in insertion order; incomingEdges and   *)
(* outgoingEdges: maps from a node to its insertion-ordered edge set.      *)
(***************************************************************************)
NewGraph ==
    [nodes |-> <<>>, data |-> EmptyMap, incomingEdges |-> EmptyMap, outgoingEdges |-> EmptyMap]

addNode(graph, node, data) ==
    IF node \in Range(graph.nodes) THEN graph
    ELSE [nodes |-> Append(graph.nodes, node),
          data |-> MapSet(graph.data, node, data),
          incomingEdges |-> MapSet(graph.incomingEdges, node, <<>>),
          outgoingEdges |-> MapSet(graph.outgoingEdges, node, <<>>)]

\* Fault: addDependency that does nothing when a node is missing.
addDependencyLenient(graph, fromNode, toNode) ==
    IF fromNode \notin DOMAIN graph.outgoingEdges \/ toNode \notin DOMAIN graph.incomingEdges
    THEN [graph |-> graph, err |-> NoError]
    ELSE [graph |-> [graph EXCEPT
                        !.incomingEdges[toNode] = SetAdd(@, fromNode),
                        !.outgoingEdges[fromNode] = SetAdd(@, toNode)],
          err |-> NoError]

\* Fault: addDependency that adds the outgoing edge before it looks for toNode.
addDependencyEager(graph, fromNode, toNode) ==
    IF fromNode \notin DOMAIN graph.outgoingEdges
    THEN [graph |-> graph, err |-> NoSuchNodeGraphError(fromNode)]
    ELSE IF toNode \notin DOMAIN graph.incomingEdges
    THEN [graph |-> [graph EXCEPT !.outgoingEdges[fromNode] = SetAdd(@, toNode)],
          err |-> NoSuchNodeGraphError(toNode)]
    ELSE [graph |-> [graph EXCEPT
                        !.incomingEdges[toNode] = SetAdd(@, fromNode),
                        !.outgoingEdges[fromNode] = SetAdd(@, toNode)],
          err |-> NoError]

\* Fault: addDependency that forgets the incoming edge set.
addDependencyOneSided(graph, fromNode, toNode) ==
    IF fromNode \notin DOMAIN graph.outgoingEdges
    THEN [graph |-> graph, err |-> NoSuchNodeGraphError(fromNode)]
    ELSE IF toNode \notin DOMAIN graph.incomingEdges
    THEN [graph |-> graph, err |-> NoSuchNodeGraphError(toNode)]
    ELSE [graph |-> [graph EXCEPT !.outgoingEdges[fromNode] = SetAdd(@, toNode)],
          err |-> NoError]

\* The graph after addDependency(fromNode, toNode) and the error it throws, if any.
addDependency(graph, fromNode, toNode) ==
    IF fromNode \notin DOMAIN graph.outgoingEdges
    THEN [graph |-> graph, err |-> NoSuchNodeGraphError(fromNode)]
    ELSE IF toNode \notin DOMAIN graph.incomingEdges
    THEN [graph |-> graph, err |-> NoSuchNodeGraphError(toNode)]
    ELSE [graph |-> [graph EXCEPT
                        !.incomingEdges[toNode] = SetAdd(@, fromNode),
                        !.outgoingEdges[fromNode] = SetAdd(@, toNode)],
          err |-> NoError]

\* Fault: removeDependency that forgets the incoming edge set.
removeDependencyOneSided(graph, fromNode, toNode) ==
    IF fromNode \in DOMAIN graph.outgoingEdges
    THEN [graph EXCEPT !.outgoingEdges[fromNode] = SetDelete(@, toNode)]
    ELSE graph

\* removeDependency(fromNode, toNode): each edge set that exists loses the
\* other end; nothing is thrown.
removeDependency(graph, fromNode, toNode) ==
    LET cut == IF fromNode \in DOMAIN graph.outgoingEdges
               THEN [graph EXCEPT !.outgoingEdges[fromNode] = SetDelete(@, toNode)]
               ELSE graph
    IN  IF toNode \in DOMAIN cut.incomingEdges
        THEN [cut EXCEPT !.incomingEdges[toNode] = SetDelete(@, fromNode)]
        ELSE cut

\* The graph after setNodeData(node, data) and the error it throws, if any.
setNodeData(graph, node, data) ==
    IF node \notin Range(graph.nodes)
    THEN [graph |-> graph, err |-> NoSuchNodeGraphError(node)]
    ELSE [graph |-> [graph EXCEPT !.data[node] = data], err |-> NoError]

\* Graph.hasNode.
hasNode(graph, node) ==
    node \in Range(graph.nodes)

\* Graph.getNodeData: [err, result].  `data == null` holds for a node that is
\* absent and for a node whose data is undefined (a field without constraint).
getNodeData(graph, node) ==
    IF node \notin DOMAIN graph.data \/ ~graph.data[node].defined
    THEN [err |-> NoSuchNodeGraphError(node), result |-> <<>>]
    ELSE [err |-> NoError, result |-> <<graph.data[node]>>]

\* The closure state of createDfs: stack, visited and the result set.
NewDfs(result) ==
    [stack |-> <<>>, visited |-> {}, result |-> result, err |-> NoError]

RECURSIVE dfs(_, _, _, _)
RECURSIVE dfsEdges(_, _, _, _)
\* One call dfs(currentNode) of the function createDfs returns, on closure state st.
dfs(edges, leavesOnly, st, currentNode) ==
    LET entered == [st EXCEPT !.visited = @ \cup {currentNode},
                              !.stack = Append(@, currentNode)]
    IN  IF currentNode \notin DOMAIN edges
        THEN [entered EXCEPT !.err = NoSuchEdgeGraphError(currentNode)]
        ELSE LET after == dfsEdges(edges, leavesOnly, entered, edges[currentNode])
             IN  IF after.err # NoError THEN after
                 ELSE [after EXCEPT
                         !.stack = SubSeq(@, 1, Len(@) - 1),
                         !.result = IF (~leavesOnly \/ Len(edges[currentNode]) = 0)
                                    THEN SetAdd(@, currentNode) ELSE @]

\* currentEdges.forEach(...) of dfs: a throw ends the iteration.
dfsEdges(edges, leavesOnly, st, todo) ==
    IF todo = <<>> \/ st.err # NoError THEN st
    ELSE LET node == Head(todo)
             next == IF node \notin st.visited
                     THEN dfs(edges, leavesOnly, st, node)
                     ELSE IF node \in Range(st.stack)
                     THEN [st EXCEPT !.stack = Append(@, node),
                                     !.err = GraphCycleError(Append(st.stack, node))]
                     ELSE st
         IN  dfsEdges(edges, leavesOnly, next, Tail(todo))

\* nodes.forEach(dfs) on one closure.
RECURSIVE dfsAll(_, _, _, _)
dfsAll(edges, leavesOnly, st, todo) ==
    IF todo = <<>> \/ st.err # NoError THEN st
    ELSE dfsAll(edges, leavesOnly, dfs(edges, leavesOnly, st, Head(todo)), Tail(todo))

\* Fault: dependenciesOf that stops at the outgoing edges of the node.
dependenciesOfImmediate(graph, node, leavesOnly) ==
    IF node \in Range(graph.nodes)
    THEN [err |-> NoError, result |-> SetDelete(graph.outgoingEdges[node], node)]
    ELSE [err |-> NoSuchNodeGraphError(node), result |-> <<>>]

\* Graph.dependenciesOf: [err, result].
dependenciesOf(graph, node, leavesOnly) ==
    IF node \in Range(graph.nodes)
    THEN LET run == dfs(graph.outgoingEdges, leavesOnly, NewDfs(<<>>), node)
         IN  [err |-> run.err,
              result |-> IF run.err = NoError THEN SetDelete(run.result, node) ELSE <<>>]
    ELSE [err |-> NoSuchNodeGraphError(node), result |-> <<>>]

\* Fault: dependantsOf that follows the outgoing edges.
dependantsOfOutgoing(graph, node, leavesOnly) ==
    IF node \in Range(graph.nodes)
    THEN LET run == dfs(graph.outgoingEdges, leavesOnly, NewDfs(<<>>), node)
         IN  [err |-> run.err,
              result |-> IF run.err = NoError THEN SetDelete(run.result, node) ELSE <<>>]
    ELSE [err |-> NoSuchNodeGraphError(node), result |-> <<>>]

\* Graph.dependantsOf: [err, result].
dependantsOf(graph, node, leavesOnly) ==
    IF node \in Range(graph.nodes)
    THEN LET run == dfs(graph.incomingEdges, leavesOnly, NewDfs(<<>>), node)
         IN  [err |-> run.err,
              result |-> IF run.err = NoError THEN SetDelete(run.result, node) ELSE <<>>]
    ELSE [err |-> NoSuchNodeGraphError(node), result |-> <<>>]

\* Fault: overallOrder without the cycle detecting pass.
overallOrderUnchecked(graph, leavesOnly) ==
    IF Len(graph.nodes) = 0 THEN [err |-> NoError, order |-> <<>>]
    ELSE LET roots == SelectSeq(graph.nodes, LAMBDA n : Len(graph.incomingEdges[n]) = 0)
             run == dfsAll(graph.outgoingEdges, leavesOnly, NewDfs(<<>>), roots)
         IN  [err |-> run.err, order |-> run.result]

\* Fault: overallOrder that keeps the leaves only, whatever it is asked.
overallOrderLeaves(graph, leavesOnly) ==
    IF Len(graph.nodes) = 0 THEN [err |-> NoError, order |-> <<>>]
    ELSE LET cycleDfs == dfsAll(graph.outgoingEdges, FALSE, NewDfs(<<>>), graph.nodes)
             roots == SelectSeq(graph.nodes, LAMBDA n : Len(graph.incomingEdges[n]) = 0)
             run == dfsAll(graph.outgoingEdges, TRUE, NewDfs(<<>>), roots)
         IN  IF cycleDfs.err # NoError THEN [err |-> cycleDfs.err, order |-> <<>>]
             ELSE [err |-> run.err, order |-> run.result]

\* Fault: overallOrder whose cycle detecting pass starts at the roots only.
overallOrderRootsChecked(graph, leavesOnly) ==
    IF Len(graph.nodes) = 0 THEN [err |-> NoError, order |-> <<>>]
    ELSE LET roots == SelectSeq(graph.nodes, LAMBDA n : Len(graph.incomingEdges[n]) = 0)
             cycleDfs == dfsAll(graph.outgoingEdges, FALSE, NewDfs(<<>>), roots)
             run == dfsAll(graph.outgoingEdges, leavesOnly, NewDfs(<<>>), roots)
         IN  IF cycleDfs.err # NoError THEN [err |-> cycleDfs.err, order |-> <<>>]
             ELSE [err |-> run.err, order |-> run.result]

\* Graph.overallOrder: [err, order].
overallOrder(graph, leavesOnly) ==
    IF Len(graph.nodes) = 0 THEN [err |-> NoError, order |-> <<>>]
    ELSE LET nodeKeys == graph.nodes
             cycleDfs == dfsAll(graph.outgoingEdges, FALSE, NewDfs(<<>>), nodeKeys)
             roots == SelectSeq(nodeKeys, LAMBDA n : Len(graph.incomingEdges[n]) = 0)
             run == dfsAll(graph.outgoingEdges, leavesOnly, NewDfs(<<>>), roots)
         IN  IF cycleDfs.err # NoError THEN [err |-> cycleDfs.err, order |-> <<>>]
             ELSE [err |-> run.err, order |-> run.result]

(***************************************************************************)
(* State.                                                                  *)
(*                                                                         *)
(* Static validation (validation/validate.ts):                             *)
(*   legacy       which validate runs: FALSE the current one, TRUE the one *)
(*                that special-cases `required` (validate.ts before 2.0.3) *)
(*   keys         Object.keys(values)                                      *)
(*   values       the values object: a plain value or a Promise            *)
(*   constraints  the constraints object                                   *)
(*   promised     per Promise-valued field: "pending" or "resolved"        *)
(*   order        the array the for-loop of validate iterates             *)
(*   phase        per field, where its chain in `promises` waits           *)
(*   vstate       per field, the state of each validator's promise         *)
(*   vargs        per field, the arguments its validators were called with *)
(*   timers       the pending validationTimeout() timers, oldest first     *)
(*   errors       the ValidationAggregateError's map field -> errors       *)
(*   result       the promise validate returned                            *)
(***************************************************************************)
VARIABLES legacy, keys, values, constraints, promised, order, phase, vstate, vargs,
          timers, errors, result

(***************************************************************************)
(* Live validation (validation/live-validate.ts); keys, values and         *)
(* constraints are then the providers liveValidate is given (values: what  *)
(* getValue() of each provider returns now) and its constraints:           *)
(*   liveGraph             the dependency graph liveValidate builds        *)
(*   thrown                what the call of liveValidate threw, if anything*)
(*   subscriptionIsActive  globalState.subscriptionIsActive                *)
(*   version               per field, currentState.version                 *)
(*   cascades              one record per change event delivered: the      *)
(*                         closure of the handler call (version, changeMap)*)
(*                         and, per call of validateNode, identified by    *)
(*                         the path of fields from the changed one, where  *)
(*                         its promise chain waits                         *)
(*   liveTimers            the pending validationTimeout() timers          *)
(*   onChangeCalls         the calls of the global change callback         *)
(*   providers             per field, the identity of its ValueProvider    *)
(*   subscriptions         the Map ValueProvider -> change handler; a      *)
(*                         handler is named by the field it was made for   *)
(*   listeners             the 'change' listeners attached to providers:   *)
(*                         pairs <<provider, field of the handler>>        *)
(***************************************************************************)
VARIABLES liveGraph, thrown, subscriptionIsActive, subscriptions, version, cascades,
          liveTimers, onChangeCalls, providers, listeners

(***************************************************************************)
(* A Graph object of its own (dependency-graph/graph.ts), for the          *)
(* properties of the graph operations:                                     *)
(*   dependencyGraph  the nodes and the two adjacency maps of the object   *)
(*   graphError       what the last call on it threw, NoError if nothing   *)
(*   graphCall        the last call: the method and its arguments          *)
(*   graphResult      the Set the last call returned, in iteration order   *)
(***************************************************************************)
VARIABLES dependencyGraph, graphError, graphCall, graphResult

staticVars ==
    <<promised, order, phase, vstate, vargs, timers, errors, result>>

liveVars ==
    <<liveGraph, thrown, subscriptionIsActive, subscriptions, version, cascades,
      liveTimers, onChangeCalls, providers, listeners>>

graphVars ==
    <<dependencyGraph, graphError, graphCall, graphResult>>

vars ==
    <<legacy, keys, values, constraints, staticVars, liveVars, graphVars>>

(***************************************************************************)
(* Inputs.                                                                 *)
(***************************************************************************)
\* Field identifiers; "z" is never a key of values.
Ids ==
    {"a", "b", "c", "z"}

\* The most validators the constraints of one call declare in total.
MaxValidators == 2

\* The most field values of one call that are Promises.
MaxPromises == 1

NoConstraint ==
    [defined |-> FALSE, hasDependencies |-> FALSE, dependencies |-> <<>>,
     required |-> FALSE, hasValidators |-> FALSE, nValidators |-> 0]

Constraint(hasDeps, deps, required, hasValidators, n) ==
    [defined |-> TRUE, hasDependencies |-> hasDeps, dependencies |-> deps,
     required |-> required, hasValidators |-> hasValidators, nValidators |-> n]

Hi ==
    Str(<<"h", "i">>)

(***************************************************************************)
(* validation/utils.ts                                                     *)
(***************************************************************************)
\* buildDependencyMap: the constraints that declare dependencies, as Sets.
buildDependencyMap(cs) ==
    [node \in {n \in DOMAIN cs : cs[n].defined /\ cs[n].hasDependencies}
        |-> SetFromSeq(cs[node].dependencies)]

\* Fault: addConstraints that passes over the dependencies that are no nodes.
RECURSIVE addConstraintsKnown(_, _, _)
addConstraintsKnown(graph, node, dependencies) ==
    IF dependencies = <<>> THEN [graph |-> graph, err |-> NoError]
    ELSE IF Head(dependencies) \notin Range(graph.nodes)
    THEN addConstraintsKnown(graph, node, Tail(dependencies))
    ELSE LET r == addDependency(graph, Head(dependencies), node)
         IN  IF r.err # NoError THEN r
             ELSE addConstraintsKnown(r.graph, node, Tail(dependencies))

\* addConstraints: dependencies.forEach(d => graph.addDependency(d, node)).
RECURSIVE addConstraints(_, _, _)
addConstraints(graph, node, dependencies) ==
    IF dependencies = <<>> THEN [graph |-> graph, err |-> NoError]
    ELSE LET r == addDependency(graph, Head(dependencies), node)
         IN  IF r.err # NoError THEN r
             ELSE addConstraints(r.graph, node, Tail(dependencies))

\* Fault: addAllConstraints over every field the dependency map has an entry for.
addAllConstraintsDeclared(graph, nodes, dependencyMap) ==
    LET declared == nodes \o SelectSeq(<<"a", "b", "c", "z">>,
                                       LAMBDA n : n \in DOMAIN dependencyMap
                                                  /\ n \notin Range(nodes))
        RECURSIVE addEach(_, _)
        addEach(g, todo) ==
            IF todo = <<>> THEN [graph |-> g, err |-> NoError]
            ELSE LET n == Head(todo)
                     r == IF n \in DOMAIN dependencyMap
                          THEN addConstraints(g, n, dependencyMap[n])
                          ELSE [graph |-> g, err |-> NoError]
                 IN  IF r.err # NoError THEN r ELSE addEach(r.graph, Tail(todo))
    IN  addEach(graph, declared)

\* addAllConstraints: nodes.forEach(n => addConstraints(graph, n, dependencyMap.get(n))).
RECURSIVE addAllConstraints(_, _, _)
addAllConstraints(graph, nodes, dependencyMap) ==
    IF nodes = <<>> THEN [graph |-> graph, err |-> NoError]
    ELSE LET n == Head(nodes)
             r == IF n \in DOMAIN dependencyMap
                  THEN addConstraints(graph, n, dependencyMap[n])
                  ELSE [graph |-> graph, err |-> NoError]
         IN  IF r.err # NoError THEN r
             ELSE addAllConstraints(r.graph, Tail(nodes), dependencyMap)

\* keys.forEach(k => graph.addNode(k, constraints[k])).
RECURSIVE addAllNodes(_, _, _)
addAllNodes(graph, nodes, cs) ==
    IF nodes = <<>> THEN graph
    ELSE addAllNodes(addNode(graph, Head(nodes), cs[Head(nodes)]), Tail(nodes), cs)

\* What a settled field value is: the value itself, or what its Promise resolves to.
Resolved(value) ==
    IF value.t = "promise" THEN value.to ELSE value

\* Fault: a map that leaves out the dependencies without a value.
getPromisedDependencyMapOmitting(vals, dependencyMap, key) ==
    IF key \notin DOMAIN dependencyMap
    THEN [defined |-> FALSE, map |-> EmptyMap]
    ELSE [defined |-> TRUE,
          map |-> [d \in {x \in Range(dependencyMap[key]) :
                            x \in DOMAIN vals /\ vals[x].t \notin {"null", "undefined"}}
                     |-> Resolved(vals[d])]]

\* One entry of the map getPromisedDependencyMap builds.
DependencyEntry(vals, key) ==
    IF key \in DOMAIN vals /\ vals[key].t \notin {"null", "undefined"}
    THEN Resolved(vals[key])
    ELSE Undefined

\* getPromisedDependencyMap once every Promise it waits for has resolved.
getPromisedDependencyMap(vals, dependencyMap, key) ==
    IF key \notin DOMAIN dependencyMap
    THEN [defined |-> FALSE, map |-> EmptyMap]
    ELSE [defined |-> TRUE,
          map |-> [d \in Range(dependencyMap[key]) |-> DependencyEntry(vals, d)]]

\* The Promises getPromisedDependencyMap awaits: the dependencies whose value is one.
AwaitedDependencies(vals, dependencyMap, key) ==
    IF key \notin DOMAIN dependencyMap THEN {}
    ELSE {d \in Range(dependencyMap[key]) : d \in DOMAIN vals /\ vals[d].t = "promise"}

(***************************************************************************)
(* validation/errors.ts                                                    *)
(***************************************************************************)
\* Fault: add that keeps only the last error of a field.
AggregateReplace(errs, field, error) ==
    MapSet(errs, field, <<error>>)

\* ValidationAggregateError.add
AggregateAdd(errs, field, error) ==
    IF field \in DOMAIN errs
    THEN [errs EXCEPT ![field] = Append(@, error)]
    ELSE MapSet(errs, field, <<error>>)

\* ValidationAggregateError.length: the number of fields with errors.
AggregateLength(errs) ==
    Cardinality(DOMAIN errs)


(***************************************************************************)
(* validation/validate.ts: the promise chain validate builds per field.    *)
(* The operators below work on a record of the mutable state.              *)
(***************************************************************************)
St ==
    [promised |-> promised, order |-> order, phase |-> phase, vstate |-> vstate,
     vargs |-> vargs, timers |-> timers, errors |-> errors, result |-> result]

Commit(s) ==
    /\ promised' = s.promised
    /\ order' = s.order
    /\ phase' = s.phase
    /\ vstate' = s.vstate
    /\ vargs' = s.vargs
    /\ timers' = s.timers
    /\ errors' = s.errors
    /\ result' = s.result

Timer(kind, key) ==
    [kind |-> kind, key |-> key]

\* A timer whose race has settled still fires, to no effect: it is dropped here.
DropTimers(queue, key) ==
    SelectSeq(queue, LAMBDA t : t.key # key)

Settled(status, error, errs) ==
    [status |-> status, error |-> error, errors |-> errs]

\* handleValidationErrors(key)(e): a ValidationError is added to the aggregate,
\* anything else is thrown again.
handleValidationErrors(s, key, e) ==
    IF InstanceOfValidationError(e)
    THEN [s |-> [s EXCEPT !.errors = AggregateAdd(@, key, e)], thrown |-> NoError]
    ELSE [s |-> s, thrown |-> e]

\* The fields validate pushes a promise for: `constraint !== undefined`.
Pushed(s) ==
    {k \in Range(s.order) : constraints[k].defined}

\* The promise of field `key` in `promises` fulfils.
FieldFulfilled(s, key) ==
    [s EXCEPT !.phase[key] = "done", !.timers = DropTimers(@, key)]

\* Fault: a rejection of a field's promise that wraps the exception in the aggregate.
FieldRejectedWrapped(s, key, e) ==
    [s EXCEPT !.phase[key] = "failed",
              !.timers = DropTimers(@, key),
              !.result = IF @.status = "pending"
                         THEN Settled("rejected", ValidationAggregateError,
                                      AggregateAdd(s.errors, key, e))
                         ELSE @]

\* The promise of field `key` rejects; Promise.all(promises) rejects with the
\* first such error, and so does validate.
FieldRejected(s, key, e) ==
    [s EXCEPT !.phase[key] = "failed",
              !.timers = DropTimers(@, key),
              !.result = IF @.status = "pending" THEN Settled("rejected", e, s.errors) ELSE @]

\* Fault: a chain whose handlers drop every ValidationError unrecorded.
ChainCatchDropping(s, key, e) ==
    IF InstanceOfValidationError(e) THEN FieldFulfilled(s, key)
    ELSE FieldRejected(s, key, e)

\* Fault: a handler that puts the error in the place of what the field has.
ChainCatchClearing(s, key, e) ==
    IF InstanceOfValidationError(e)
    THEN FieldFulfilled([s EXCEPT !.errors = MapSet(@, key, <<e>>)], key)
    ELSE FieldRejected(s, key, e)

\* .then(..., keyValidationErrorsHandler).catch(keyValidationErrorsHandler)
\* receives the rejection e of the chain of field `key`.
ChainCatch(s, key, e) ==
    LET h == handleValidationErrors(s, key, e)
    IN  IF h.thrown = NoError THEN FieldFulfilled(h.s, key)
        ELSE FieldRejected(h.s, key, h.thrown)

\* Fault: a validate that resolves whatever the aggregate holds.
awaitAllResolving(s) ==
    IF s.result.status = "pending" /\ \A k \in Pushed(s) : s.phase[k] = "done"
    THEN [s EXCEPT !.result = Settled("resolved", NoError, s.errors)]
    ELSE s

\* await Promise.all(promises); if (errors.length > 0) throw errors; return
awaitAll(s) ==
    IF s.result.status = "pending" /\ \A k \in Pushed(s) : s.phase[k] = "done"
    THEN [s EXCEPT !.result =
            IF AggregateLength(s.errors) > 0
            THEN Settled("rejected", ValidationAggregateError, s.errors)
            ELSE Settled("resolved", NoError, s.errors)]
    ELSE s

\* The validators of `key` are declared: race the dependency map with a timeout.
raceDependencies(s, key, val) ==
    [s EXCEPT !.phase[key] = "deps",
              !.timers = Append(DropTimers(@, key), Timer("dependencies", key))]

\* Fault: a callback that leaves the validators of an empty value uncalled.
thenValueSkippingEmpty(s, key, val) ==
    IF isEmpty(val) \/ ~constraints[key].hasValidators THEN FieldFulfilled(s, key)
    ELSE raceDependencies(s, key, val)

\* The first .then callback of the chain, with the resolved value of the field.
thenValue(s, key, val) ==
    IF constraints[key].hasValidators THEN raceDependencies(s, key, val)
    ELSE FieldFulfilled(s, key)

\* Fault: the callback that skips an empty value without recording `required`.
thenValueLegacySkipping(s, key, val) ==
    IF isEmpty(val) THEN FieldFulfilled(s, key)
    ELSE IF constraints[key].hasValidators THEN raceDependencies(s, key, val)
    ELSE FieldFulfilled(s, key)

\* The same callback of the validate that special-cases `required`.
thenValueLegacy(s, key, val) ==
    IF isEmpty(val)
    THEN IF constraints[key].required
         THEN FieldFulfilled(
                [s EXCEPT !.errors = AggregateAdd(@, key, RequiredValidationError)], key)
         ELSE FieldFulfilled(s, key)
    ELSE IF constraints[key].hasValidators THEN raceDependencies(s, key, val)
    ELSE FieldFulfilled(s, key)

onValue(s, key, val) ==
    IF legacy THEN thenValueLegacy(s, key, val) ELSE thenValue(s, key, val)

\* Every Promise getPromisedDependencyMap awaits for `key` has resolved.
DependenciesReady(s, key) ==
    \A d \in AwaitedDependencies(values, buildDependencyMap(constraints), key) :
        s.promised[d] = "resolved"

\* Fault: a second callback that calls no validator for a field of which a
\* declared dependency has errors.
thenDependenciesUnlessFailed(s, key) ==
    LET n == constraints[key].nValidators
        called == [s EXCEPT
            !.phase[key] = "validators",
            !.vstate[key] = [i \in 1..n |-> "pending"],
            !.vargs[key] = [valued |-> TRUE, value |-> s.vargs[key].value,
                            called |-> TRUE,
                            dependencies |-> getPromisedDependencyMap(
                                values, buildDependencyMap(constraints), key)],
            !.timers = Append(DropTimers(@, key), Timer("validators", key))]
    IN  IF n = 0 THEN FieldFulfilled(called, key)
        ELSE IF \E d \in Range(constraints[key].dependencies) :
                    d \in DOMAIN s.errors /\ s.errors[d] # <<>>
        THEN FieldFulfilled(s, key)
        ELSE called

\* The second .then callback: one shared timeout, every validator is called with
\* (val, dependencies, {}) and raced with it.
thenDependencies(s, key) ==
    LET n == constraints[key].nValidators
        called == [s EXCEPT
            !.phase[key] = "validators",
            !.vstate[key] = [i \in 1..n |-> "pending"],
            !.vargs[key] = [valued |-> TRUE, value |-> s.vargs[key].value,
                            called |-> TRUE,
                            dependencies |-> getPromisedDependencyMap(
                                values, buildDependencyMap(constraints), key)],
            !.timers = Append(DropTimers(@, key), Timer("validators", key))]
    IN  IF n = 0 THEN FieldFulfilled(called, key) ELSE called

\* The promise jobs that run the first callback of every field in `todo` whose
\* value is there; vargs keeps the value the callback received.
RECURSIVE runValues(_, _)
runValues(s, todo) ==
    IF todo = <<>> THEN s
    ELSE LET k == Head(todo)
             next == IF s.phase[k] = "value" /\
                        (values[k].t # "promise" \/ s.promised[k] = "resolved")
                     THEN onValue([s EXCEPT !.vargs[k].valued = TRUE,
                                            !.vargs[k].value = Resolved(values[k])],
                                  k, Resolved(values[k]))
                     ELSE s
         IN  runValues(next, Tail(todo))

\* The promise jobs that run the second callback of every field in `todo` whose
\* dependency map is complete.
RECURSIVE runDependencies(_, _)
runDependencies(s, todo) ==
    IF todo = <<>> THEN s
    ELSE LET k == Head(todo)
             next == IF s.phase[k] = "deps" /\ DependenciesReady(s, k)
                     THEN thenDependencies(s, k)
                     ELSE s
         IN  runDependencies(next, Tail(todo))

\* The for-loop of validate: one chain and one value timeout per constrained key.
RECURSIVE pushAll(_, _)
pushAll(s, todo) ==
    IF todo = <<>> THEN s
    ELSE LET k == Head(todo)
             next == IF constraints[k].defined
                     THEN [s EXCEPT !.phase[k] = "value",
                                    !.timers = Append(@, Timer("value", k))]
                     ELSE s
         IN  pushAll(next, Tail(todo))

\* The fields waiting for their dependency map, in the order they began to.
DependencyWaiters(s) ==
    LET waiting == SelectSeq(s.timers, LAMBDA t : t.kind = "dependencies")
    IN  [i \in 1..Len(waiting) |-> waiting[i].key]

(***************************************************************************)
(* Actions of static validation.                                           *)
(***************************************************************************)
\* validate(values, constraints) is called: the graph is built, the order is
\* computed, the chains are set up, and the promise jobs of the plain values run.
\* Chains without declared dependencies reach their validators in fewer promise
\* jobs than chains that await their dependency map.
validate ==
    /\ result.status = "idle"
    /\ LET dependencyMap == buildDependencyMap(constraints)
           graph == addAllConstraints(addAllNodes(NewGraph, keys, constraints),
                                      keys, dependencyMap)
           sorted == overallOrder(graph.graph, FALSE)
           called == [St EXCEPT !.result = Settled("pending", NoError, EmptyMap)]
       IN  IF graph.err # NoError
           THEN Commit([called EXCEPT !.result = Settled("rejected", graph.err, EmptyMap)])
           ELSE IF sorted.err # NoError
           THEN Commit([called EXCEPT !.result = Settled("rejected", sorted.err, EmptyMap)])
           ELSE LET pushed == pushAll([called EXCEPT !.order = sorted.order], sorted.order)
                    valued == runValues(pushed, sorted.order)
                    undeclared == SelectSeq(sorted.order,
                                            LAMBDA k : k \notin DOMAIN dependencyMap)
                    declared == SelectSeq(sorted.order,
                                          LAMBDA k : k \in DOMAIN dependencyMap)
                IN  Commit(awaitAll(runDependencies(
                        runDependencies(valued, undeclared), declared)))
    /\ UNCHANGED <<legacy, keys, values, constraints, liveVars, graphVars>>

\* The Promise given as the value of field `key` resolves: the chain of `key`
\* goes on, and so does every dependency map that waited for it.
resolveValue(key) ==
    /\ result.status # "idle"
    /\ key \in Range(keys)
    /\ values[key].t = "promise"
    /\ promised[key] = "pending"
    /\ LET resolved == [St EXCEPT !.promised[key] = "resolved"]
           valued == runValues(resolved, <<key>>)
           own == runDependencies(valued, <<key>>)
       IN  Commit(awaitAll(runDependencies(own, DependencyWaiters(own))))
    /\ UNCHANGED <<legacy, keys, values, constraints, liveVars, graphVars>>

\* The oldest validationTimeout() timer fires (all timers run VALIDATION_TIMEOUT
\* long, so they fire in the order they were started): the race it is part of
\* rejects with a ValidationTimeoutError.
timeout ==
    /\ timers # <<>>
    /\ LET t == Head(timers)
           fired == [St EXCEPT !.timers = Tail(@)]
       IN  Commit(awaitAll(ChainCatch(fired, t.key, ValidationTimeoutError)))
    /\ UNCHANGED <<legacy, keys, values, constraints, liveVars, graphVars>>

\* The promise validator `idx` of field `key` returned settles with `e`
\* (NoError: it fulfils).  Its own .catch(keyValidationErrorsHandler) runs
\* whether or not the race with the timeout is already lost.
settleValidator(key, idx, e) ==
    /\ key \in Range(keys)
    /\ idx \in DOMAIN vstate[key]
    /\ vstate[key][idx] = "pending"
    /\ LET handled == IF e = NoError THEN [s |-> St, thrown |-> NoError]
                      ELSE handleValidationErrors(St, key, e)
           marked == [handled.s EXCEPT !.vstate[key][idx] =
                        IF e = NoError THEN "passed"
                        ELSE IF handled.thrown = NoError THEN "failed" ELSE "threw"]
           raced == IF marked.phase[key] # "validators" THEN marked
                    ELSE IF handled.thrown # NoError
                    THEN ChainCatch(marked, key, handled.thrown)
                    ELSE IF \A i \in DOMAIN marked.vstate[key] :
                                marked.vstate[key][i] \in {"passed", "failed"}
                    THEN FieldFulfilled(marked, key)
                    ELSE marked
       IN  Commit(awaitAll(raced))
    /\ UNCHANGED <<legacy, keys, values, constraints, liveVars, graphVars>>

\* What a validator's promise may settle with.
ValidatorOutcomes(key, idx) ==
    {NoError, ValidationError(key, idx), PlainError(key, idx)}

(***************************************************************************)
(* Initial states: the inputs of one call of validate.                     *)
(***************************************************************************)
KeyChoices ==
    {<<>>, <<"a", "b", "c">>}

ValueChoices ==
    {Hi, Null, PromiseOf(Hi)}

\* No constraint, or validators with or without one dependency.
ConstraintChoices ==
    {NoConstraint}
    \cup {Constraint(TRUE, <<d>>, FALSE, TRUE, n) : d \in Ids, n \in 1..MaxValidators}
    \cup {Constraint(FALSE, <<>>, FALSE, TRUE, n) : n \in 1..MaxValidators}

RECURSIVE TotalValidators(_, _)
TotalValidators(cs, ks) ==
    IF ks = <<>> THEN 0
    ELSE cs[Head(ks)].nValidators + TotalValidators(cs, Tail(ks))

\* The arguments of one call.
InputsInit(isLegacy, keyChoices, valueChoices, constraintChoices) ==
    /\ legacy = isLegacy
    /\ keys \in keyChoices
    /\ values \in [Range(keys) -> valueChoices]
    /\ \E cs \in [Range(keys) -> constraintChoices] :
          constraints = [id \in Ids |-> IF id \in Range(keys) THEN cs[id] ELSE NoConstraint]
    /\ TotalValidators(constraints, keys) <= MaxValidators
    /\ Cardinality({k \in Range(keys) : values[k].t = "promise"}) <= MaxPromises

\* validate has not been called.
StaticIdle ==
    /\ promised = [k \in Range(keys) |-> "pending"]
    /\ order = <<>>
    /\ phase = [k \in Range(keys) |-> "none"]
    /\ vstate = [k \in Range(keys) |-> <<>>]
    /\ vargs = [k \in Range(keys) |->
                  [valued |-> FALSE, value |-> Undefined, called |-> FALSE,
                   dependencies |-> [defined |-> FALSE, map |-> EmptyMap]]]
    /\ timers = <<>>
    /\ errors = EmptyMap
    /\ result = Settled("idle", NoError, EmptyMap)

\* liveValidate has not been called.
LiveIdle ==
    /\ liveGraph = NewGraph
    /\ thrown = NoError
    /\ subscriptionIsActive = FALSE
    /\ subscriptions = EmptyMap
    /\ version = [k \in Range(keys) |-> 0]
    /\ cascades = <<>>
    /\ liveTimers = <<>>
    /\ onChangeCalls = <<>>
    /\ providers = [k \in Range(keys) |-> k]
    /\ listeners = {}

\* No Graph object of its own has been made.
GraphIdle ==
    /\ dependencyGraph = NewGraph
    /\ graphError = NoError
    /\ graphCall = [op |-> "new Graph", node |-> "", other |-> "", leavesOnly |-> FALSE,
                    data |-> NoConstraint]
    /\ graphResult = <<>>

StaticInit(isLegacy, keyChoices, valueChoices, constraintChoices) ==
    /\ InputsInit(isLegacy, keyChoices, valueChoices, constraintChoices)
    /\ StaticIdle
    /\ LiveIdle
    /\ GraphIdle

Init ==
    StaticInit(FALSE, KeyChoices, ValueChoices, ConstraintChoices)

\* The inputs of the validate that special-cases `required`: every kind of
\* empty value, and constraints with and without `required`.
LegacyKeyChoices ==
    {<<>>, <<"a", "b">>}

Blank ==
    Str(<<" ", " ">>)

LegacyValueChoices ==
    {Hi, Null, Undefined, Str(<<>>), Blank, Arr(<<>>), Arr(<<Hi>>),
     PromiseOf(Blank), PromiseOf(Hi)}

LegacyConstraintChoices ==
    {NoConstraint}
    \cup {Constraint(FALSE, <<>>, r, n > 0, n) : r \in BOOLEAN, n \in 0..MaxValidators}
    \cup {Constraint(TRUE, <<d>>, r, TRUE, n) : d \in {"a", "b"}, r \in BOOLEAN,
                                               n \in 1..MaxValidators}

InitLegacy ==
    StaticInit(TRUE, LegacyKeyChoices, LegacyValueChoices, LegacyConstraintChoices)

\* The inputs of a call whose constraints name a field, z, that `values` has
\* no key for: with validators and `required`, with and without a dependency.
StrayConstraintChoices ==
    {Constraint(TRUE, <<"a">>, TRUE, TRUE, 1), Constraint(FALSE, <<>>, TRUE, TRUE, 1)}

InitStray ==
    /\ legacy = FALSE
    /\ keys = <<"a", "b">>
    /\ values \in [Range(keys) -> ValueChoices]
    /\ \E cs \in [Range(keys) -> ConstraintChoices], stray \in StrayConstraintChoices :
          constraints = [id \in Ids |-> IF id \in Range(keys) THEN cs[id]
                                        ELSE IF id = "z" THEN stray ELSE NoConstraint]
    /\ TotalValidators(constraints, keys) <= MaxValidators
    /\ Cardinality({k \in Range(keys) : values[k].t = "promise"}) <= MaxPromises
    /\ StaticIdle
    /\ LiveIdle
    /\ GraphIdle

Next ==
    \/ validate
    \/ \E key \in Ids : resolveValue(key)
    \/ timeout
    \/ \E key \in Ids, idx \in 1..MaxValidators :
          \E e \in ValidatorOutcomes(key, idx) : settleValidator(key, idx, e)

Spec ==
    Init /\ [][Next]_vars

SpecStray ==
    InitStray /\ [][Next]_vars

SpecLegacy ==
    InitLegacy /\ [][Next]_vars

(***************************************************************************)
(* validation/live-validate.ts                                             *)
(***************************************************************************)
\* The most change events delivered to the change handlers.
MaxChanges == 2

\* The length from which a cascade stops going around a dependency cycle.
MaxDepth == 2

\* A callback called without an argument.
NoArgument ==
    [type |-> "no argument"]

\* LiveValidationChangeMap: its Map field -> errors, in insertion order.
NewChangeMap ==
    [order |-> <<>>, errors |-> EmptyMap]

markNodeAsChanged(changeMap, node) ==
    IF node \in DOMAIN changeMap.errors THEN changeMap
    ELSE [order |-> Append(changeMap.order, node),
          errors |-> MapSet(changeMap.errors, node, <<>>)]

addError(changeMap, node, error) ==
    IF node \in DOMAIN changeMap.errors
    THEN [changeMap EXCEPT !.errors[node] = Append(@, error)]
    ELSE [order |-> Append(changeMap.order, node),
          errors |-> MapSet(changeMap.errors, node, <<error>>)]

hasErrors(changeMap) ==
    \E node \in DOMAIN changeMap.errors : Len(changeMap.errors[node]) > 0

\* Fault: a dependency map of the texts the providers held before any edit.
liveGetPromisedDependencyMapStale(vals, dependencyMap, key) ==
    IF key \notin DOMAIN dependencyMap THEN EmptyMap
    ELSE [d \in Range(dependencyMap[key]) |-> IF d \in DOMAIN vals THEN Hi ELSE Undefined]

\* getPromisedDependencyMap of live-validate.ts once the Promises it awaits have
\* resolved: an empty Map when no dependencies are declared, and what getValue()
\* of each declared provider gives.
liveGetPromisedDependencyMap(vals, dependencyMap, key) ==
    IF key \notin DOMAIN dependencyMap THEN EmptyMap
    ELSE [d \in Range(dependencyMap[key]) |->
            IF d \in DOMAIN vals THEN Resolved(vals[d]) ELSE Undefined]

\* The value of a provider after an edit: a character is typed (a space, so
\* that an empty text stays empty in the sense of isEmpty).
Edited(value) ==
    CASE value.t = "string" -> Str(Append(value.s, " "))
      [] value.t = "promise" /\ value.to.t = "string" ->
            PromiseOf(Str(Append(value.to.s, " ")))
      [] OTHER -> value

\* The mutable state the promise reactions of live validation work on.
LiveSt ==
    [values |-> values, version |-> version, cascades |-> cascades,
     liveTimers |-> liveTimers, onChangeCalls |-> onChangeCalls]

LiveCommit(s) ==
    /\ values' = s.values
    /\ version' = s.version
    /\ cascades' = s.cascades
    /\ liveTimers' = s.liveTimers
    /\ onChangeCalls' = s.onChangeCalls

LiveTimer(i, path, kind) ==
    [cascade |-> i, path |-> path, kind |-> kind]

\* A timer whose race has settled still fires, to no effect: it is dropped here.
DropLiveTimers(queue, i, path) ==
    SelectSeq(queue, LAMBDA t : ~(t.cascade = i /\ t.path = path))

NodeOf(path) ==
    path[Len(path)]

ParentOf(path) ==
    SubSeq(path, 1, Len(path) - 1)

\* The calls of validateNode made by validateDependenciesFor(NodeOf(path)).
ChildrenOf(visits, path) ==
    {q \in DOMAIN visits : Len(q) = Len(path) + 1 /\ ParentOf(q) = path}

\* The closure of one call of the change handler of `node`.
NewCascade(node, ver, local) ==
    [node |-> node, version |-> ver, started |-> TRUE, local |-> local,
     localCalls |-> <<>>, changeMap |-> NewChangeMap, visits |-> EmptyMap,
     created |-> <<>>, status |-> "pending", error |-> NoError, truncated |-> FALSE]

\* A change event delivered after cancellation: the local callback is called at once.
IdleCascade(node, local) ==
    [NewCascade(node, 0, local) EXCEPT
        !.started = FALSE, !.status = "none",
        !.localCalls = IF local THEN <<NoArgument>> ELSE <<>>]

NewVisit ==
    [phase |-> "entered", value |-> Undefined, dependencies |-> EmptyMap,
     called |-> FALSE, vstate |-> <<>>, error |-> NoError]

\* Fault: unwrapErrors without the comparison of versions.
unwrapErrorsUnversioned(s, i, e) ==
    LET c == s.cascades[i]
        argument == IF e # NoError THEN e
                    ELSE IF hasErrors(c.changeMap) THEN c.changeMap ELSE NoArgument
        settled == [s EXCEPT
            !.cascades[i].status = IF e = NoError THEN "fulfilled" ELSE "rejected",
            !.cascades[i].error = e,
            !.cascades[i].localCalls = IF c.local THEN Append(@, argument) ELSE @]
    IN  IF subscriptionIsActive
        THEN [settled EXCEPT !.onChangeCalls =
                Append(@, [cascade |-> i, changeMap |-> c.changeMap])]
        ELSE settled

\* Fault: unwrapErrors that reports to the global callback on fulfilment only.
unwrapErrorsFulfilled(s, i, e) ==
    LET c == s.cascades[i]
        argument == IF e # NoError THEN e
                    ELSE IF hasErrors(c.changeMap) THEN c.changeMap ELSE NoArgument
        settled == [s EXCEPT
            !.cascades[i].status = IF e = NoError THEN "fulfilled" ELSE "rejected",
            !.cascades[i].error = e,
            !.cascades[i].localCalls = IF c.local THEN Append(@, argument) ELSE @]
    IN  IF e = NoError /\ c.version = s.version[c.node] /\ subscriptionIsActive
        THEN [settled EXCEPT !.onChangeCalls =
                Append(@, [cascade |-> i, changeMap |-> c.changeMap])]
        ELSE settled

\* Fault: unwrapErrors that compares the versions only.
unwrapErrorsCancelled(s, i, e) ==
    LET c == s.cascades[i]
        argument == IF e # NoError THEN e
                    ELSE IF hasErrors(c.changeMap) THEN c.changeMap ELSE NoArgument
        settled == [s EXCEPT
            !.cascades[i].status = IF e = NoError THEN "fulfilled" ELSE "rejected",
            !.cascades[i].error = e,
            !.cascades[i].localCalls = IF c.local THEN Append(@, argument) ELSE @]
    IN  IF c.version = s.version[c.node]
        THEN [settled EXCEPT !.onChangeCalls =
                Append(@, [cascade |-> i, changeMap |-> c.changeMap])]
        ELSE settled

\* Fault: unwrapErrors that calls the local callback under the condition of
\* the global one.
unwrapErrorsCurrentOnly(s, i, e) ==
    LET c == s.cascades[i]
        argument == IF e # NoError THEN e
                    ELSE IF hasErrors(c.changeMap) THEN c.changeMap ELSE NoArgument
        settled == [s EXCEPT
            !.cascades[i].status = IF e = NoError THEN "fulfilled" ELSE "rejected",
            !.cascades[i].error = e]
    IN  IF c.version = s.version[c.node] /\ subscriptionIsActive
        THEN [settled EXCEPT
                !.cascades[i].localCalls = IF c.local THEN Append(@, argument) ELSE @,
                !.onChangeCalls = Append(@, [cascade |-> i, changeMap |-> c.changeMap])]
        ELSE settled

\* unwrapErrors: the promise of cascade i has settled (e = NoError: fulfilled).
\* The local callback is called, and the global one when the version of the
\* cascade is still the version of its field and the subscription is active.
unwrapErrors(s, i, e) ==
    LET c == s.cascades[i]
        argument == IF e # NoError THEN e
                    ELSE IF hasErrors(c.changeMap) THEN c.changeMap ELSE NoArgument
        settled == [s EXCEPT
            !.cascades[i].status = IF e = NoError THEN "fulfilled" ELSE "rejected",
            !.cascades[i].error = e,
            !.cascades[i].localCalls = IF c.local THEN Append(@, argument) ELSE @]
    IN  IF c.version = s.version[c.node] /\ subscriptionIsActive
        THEN [settled EXCEPT !.onChangeCalls =
                Append(@, [cascade |-> i, changeMap |-> c.changeMap])]
        ELSE settled

RECURSIVE visitFulfilled(_, _, _)
RECURSIVE visitRejected(_, _, _, _)
RECURSIVE validateNode(_, _, _)
RECURSIVE validateDependenciesFor(_, _, _)
RECURSIVE spawnDependants(_, _, _, _)

\* The promise validateNode returned for `path` fulfils; a Promise.all of the
\* parent that waits for it fulfils when it was the last.
visitFulfilled(s, i, path) ==
    LET done == [s EXCEPT !.cascades[i].visits[path].phase = "done",
                          !.liveTimers = DropLiveTimers(@, i, path)]
        parent == ParentOf(path)
        visits == done.cascades[i].visits
    IN  IF Len(path) = 1 THEN unwrapErrors(done, i, NoError)
        ELSE IF visits[parent].phase = "dependants"
                /\ \A q \in ChildrenOf(visits, parent) : visits[q].phase = "done"
        THEN visitFulfilled(done, i, parent)
        ELSE done

\* Fault: a handler that adds whatever it is given to the change map.
liveChainCatchRecording(s, i, path, e) ==
    visitFulfilled([s EXCEPT !.cascades[i].changeMap = addError(@, NodeOf(path), e)], i, path)

\* getErrorHandlerForNode(node, changeMap)(e) as the rejection handler of the
\* chain of `path`: a ValidationError is added to the change map, anything else
\* is thrown again.
liveChainCatch(s, i, path, e) ==
    IF InstanceOfValidationError(e)
    THEN visitFulfilled([s EXCEPT !.cascades[i].changeMap = addError(@, NodeOf(path), e)],
                        i, path)
    ELSE visitRejected(s, i, path, e)

\* The promise validateNode returned for `path` rejects with e; the Promise.all
\* of a parent that waits for it rejects with e too.
visitRejected(s, i, path, e) ==
    LET failed == [s EXCEPT !.cascades[i].visits[path].phase = "failed",
                            !.cascades[i].visits[path].error = e,
                            !.liveTimers = DropLiveTimers(@, i, path)]
        parent == ParentOf(path)
    IN  IF Len(path) = 1 THEN unwrapErrors(failed, i, e)
        ELSE IF failed.cascades[i].visits[parent].phase # "dependants" THEN failed
        ELSE IF constraints[NodeOf(parent)].defined /\ constraints[NodeOf(parent)].hasValidators
        THEN liveChainCatch(failed, i, parent, e)
        ELSE visitRejected(failed, i, parent, e)

\* The call of validateNode for `path` begins: the field is marked as changed.
enterNode(s, i, path) ==
    [s EXCEPT !.cascades[i].changeMap = markNodeAsChanged(@, NodeOf(path)),
              !.cascades[i].visits = MapSet(@, path, NewVisit),
              !.cascades[i].created = Append(@, path)]

\* validateDependenciesFor(NodeOf(path)) and the Promise.all of what it
\* returns.  A dependant with validators is validated; any other dependant is
\* only marked as changed.  A path of MaxDepth fields or more that would go
\* on to a field it has already passed (a dependency cycle) is followed no
\* further.
validateDependenciesFor(s, i, path) ==
    IF ~subscriptionIsActive THEN visitFulfilled(s, i, path)
    ELSE IF Len(path) >= MaxDepth
            /\ \E d \in Range(liveGraph.outgoingEdges[NodeOf(path)]) :
                  constraints[d].defined /\ constraints[d].hasValidators /\ d \in Range(path)
    THEN visitFulfilled([s EXCEPT !.cascades[i].truncated = TRUE], i, path)
    ELSE LET spawned == spawnDependants(s, i, path,
                                        liveGraph.outgoingEdges[NodeOf(path)])
             waiting == [spawned EXCEPT !.cascades[i].visits[path].phase = "dependants"]
         IN  IF ChildrenOf(waiting.cascades[i].visits, path) = {}
             THEN visitFulfilled(waiting, i, path)
             ELSE waiting

\* The for-loop of validateDependenciesFor.
spawnDependants(s, i, path, todo) ==
    IF todo = <<>> THEN s
    ELSE LET dependant == Head(todo)
             next == IF constraints[dependant].defined /\ constraints[dependant].hasValidators
                     THEN validateNode(s, i, Append(path, dependant))
                     ELSE [s EXCEPT !.cascades[i].changeMap =
                                        markNodeAsChanged(@, dependant)]
         IN  spawnDependants(next, i, path, Tail(todo))

\* The synchronous part of validateNode: without validators the dependants are
\* validated at once, otherwise the value is raced with a timeout.
validateNode(s, i, path) ==
    LET node == NodeOf(path)
        entered == enterNode(s, i, path)
    IN  IF ~constraints[node].defined \/ ~constraints[node].hasValidators
        THEN IF ~subscriptionIsActive THEN visitFulfilled(entered, i, path)
             ELSE validateDependenciesFor(entered, i, path)
        ELSE [entered EXCEPT
                !.cascades[i].visits[path].phase = "value",
                !.cascades[i].visits[path].value = s.values[node],
                !.liveTimers = Append(@, LiveTimer(i, path, "value"))]

\* The last .then callback of validateNode: every validator has settled.
\* Their races are over, so the shared timeout no longer has any effect.
afterValidators(s, i, path) ==
    LET raced == [s EXCEPT !.liveTimers = DropLiveTimers(@, i, path)]
    IN  IF hasErrors(raced.cascades[i].changeMap) \/ ~subscriptionIsActive
        THEN visitFulfilled(raced, i, path)
        ELSE validateDependenciesFor(raced, i, path)

\* Fault: the callback that receives the dependency map calls the validators
\* without looking at subscriptionIsActive.
onLiveDependenciesUncancelled(s, i, path) ==
    LET n == constraints[NodeOf(path)].nValidators
        called == [s EXCEPT
            !.cascades[i].visits[path].phase = "validators",
            !.cascades[i].visits[path].called = TRUE,
            !.cascades[i].visits[path].vstate = [k \in 1..n |-> "pending"],
            !.liveTimers = Append(DropLiveTimers(@, i, path),
                                  LiveTimer(i, path, "validators"))]
    IN  IF n = 0 THEN afterValidators(called, i, path) ELSE called

\* The callback that receives the dependency map: one shared timeout, every
\* validator is called with (value, dependencies, {}).
onLiveDependencies(s, i, path) ==
    LET n == constraints[NodeOf(path)].nValidators
        called == [s EXCEPT
            !.cascades[i].visits[path].phase = "validators",
            !.cascades[i].visits[path].called = TRUE,
            !.cascades[i].visits[path].vstate = [k \in 1..n |-> "pending"],
            !.liveTimers = Append(DropLiveTimers(@, i, path),
                                  LiveTimer(i, path, "validators"))]
    IN  IF ~subscriptionIsActive \/ ~constraints[NodeOf(path)].hasValidators
        THEN visitFulfilled(s, i, path)
        ELSE IF n = 0 THEN afterValidators(called, i, path)
        ELSE called

\* The callback that receives the value: the dependency map is raced with a timeout.
onLiveValue(s, i, path) ==
    LET node == NodeOf(path)
        dependencyMap == buildDependencyMap(constraints)
        racing == [s EXCEPT
            !.cascades[i].visits[path].phase = "deps",
            !.cascades[i].visits[path].value = Resolved(@),
            !.cascades[i].visits[path].dependencies =
                liveGetPromisedDependencyMap(s.values, dependencyMap, node),
            !.liveTimers = Append(DropLiveTimers(@, i, path),
                                  LiveTimer(i, path, "dependencies"))]
    IN  IF ~subscriptionIsActive THEN visitFulfilled(s, i, path)
        ELSE IF AwaitedDependencies(s.values, dependencyMap, node) = {}
        THEN onLiveDependencies(racing, i, path)
        ELSE racing

\* The promise jobs of cascade i that are ready to run: the chains whose value
\* is no Promise, in the order validateNode was called.
RECURSIVE drainLive(_, _)
drainLive(s, i) ==
    LET c == s.cascades[i]
        ready == SelectSeq(c.created, LAMBDA q : c.visits[q].phase = "value"
                                                /\ c.visits[q].value.t # "promise")
    IN  IF ready = <<>> THEN s
        ELSE drainLive(onLiveValue(s, i, Head(ready)), i)

(***************************************************************************)
(* Actions of live validation.                                             *)
(***************************************************************************)
\* The provider of `node` has a new value and emits 'change': the handler
\* liveValidate made for `node` runs.  After cancellation it runs only where it
\* is still called: an emission that had begun, or a listener left attached.
change(node, local) ==
    /\ thrown = NoError
    /\ Len(cascades) < MaxChanges
    /\ node \in Range(keys)
    /\ LET i == Len(cascades) + 1
           emitted == [LiveSt EXCEPT
                        !.values = [k \in DOMAIN @ |->
                                      IF providers[k] = providers[node] THEN Edited(@[k])
                                      ELSE @[k]]]
           bumped == [emitted EXCEPT
                        !.version[node] = @ + 1,
                        !.cascades = Append(@, NewCascade(node, version[node] + 1, local))]
       IN  IF ~subscriptionIsActive
           THEN LiveCommit([emitted EXCEPT !.cascades = Append(@, IdleCascade(node, local))])
           ELSE IF ~constraints[node].defined
           THEN LiveCommit(drainLive(
                   validateDependenciesFor(enterNode(bumped, i, <<node>>), i, <<node>>), i))
           ELSE LiveCommit(drainLive(validateNode(bumped, i, <<node>>), i))
    /\ UNCHANGED <<legacy, keys, constraints, staticVars, liveGraph, thrown,
                   subscriptionIsActive, subscriptions, providers, listeners, graphVars>>

\* The Promise getValue() returned to validateNode for `path` resolves.
liveResolveValue(i, path) ==
    /\ i \in DOMAIN cascades
    /\ path \in DOMAIN cascades[i].visits
    /\ cascades[i].visits[path].phase = "value"
    /\ LiveCommit(drainLive(onLiveValue(LiveSt, i, path), i))
    /\ UNCHANGED <<legacy, keys, constraints, staticVars, liveGraph, thrown,
                   subscriptionIsActive, subscriptions, providers, listeners, graphVars>>

\* The Promises getPromisedDependencyMap awaits for `path` have resolved.
liveResolveDependencies(i, path) ==
    /\ i \in DOMAIN cascades
    /\ path \in DOMAIN cascades[i].visits
    /\ cascades[i].visits[path].phase = "deps"
    /\ LiveCommit(drainLive(onLiveDependencies(LiveSt, i, path), i))
    /\ UNCHANGED <<legacy, keys, constraints, staticVars, liveGraph, thrown,
                   subscriptionIsActive, subscriptions, providers, listeners, graphVars>>

\* The promise validator `idx` returned to the call for `path` settles with e.
\* Its own .catch(handler) runs whether or not the race with the timeout is
\* already lost: a ValidationError is recorded even then, anything else is
\* thrown into a race that has settled.  A validator that fulfils after its
\* race is lost changes nothing and is left pending.
liveSettleValidator(i, path, idx, e) ==
    /\ i \in DOMAIN cascades
    /\ path \in DOMAIN cascades[i].visits
    /\ idx \in DOMAIN cascades[i].visits[path].vstate
    /\ cascades[i].visits[path].vstate[idx] = "pending"
    /\ cascades[i].visits[path].phase = "validators" \/ e # NoError
    /\ LET recorded == IF InstanceOfValidationError(e)
                       THEN [LiveSt EXCEPT !.cascades[i].changeMap =
                                               addError(@, NodeOf(path), e)]
                       ELSE LiveSt
           marked == [recorded EXCEPT !.cascades[i].visits[path].vstate[idx] =
                        IF e = NoError THEN "passed"
                        ELSE IF InstanceOfValidationError(e) THEN "failed" ELSE "threw"]
           visit == marked.cascades[i].visits[path]
           raced == IF visit.phase # "validators" THEN marked
                    ELSE IF visit.vstate[idx] = "threw"
                    THEN liveChainCatch(marked, i, path, e)
                    ELSE IF \A k \in DOMAIN visit.vstate : visit.vstate[k] \in {"passed", "failed"}
                    THEN afterValidators(marked, i, path)
                    ELSE marked
       IN  LiveCommit(drainLive(raced, i))
    /\ UNCHANGED <<legacy, keys, constraints, staticVars, liveGraph, thrown,
                   subscriptionIsActive, subscriptions, providers, listeners, graphVars>>

\* The oldest validationTimeout() timer fires: its race rejects with a
\* ValidationTimeoutError, which the handler of the field records.
liveTimeout ==
    /\ liveTimers # <<>>
    /\ LET t == Head(liveTimers)
           fired == [LiveSt EXCEPT !.liveTimers = Tail(@)]
       IN  LiveCommit(drainLive(
               liveChainCatch(fired, t.cascade, t.path, ValidationTimeoutError), t.cascade))
    /\ UNCHANGED <<legacy, keys, constraints, staticVars, liveGraph, thrown,
                   subscriptionIsActive, subscriptions, providers, listeners, graphVars>>

\* The canceller liveValidate returned is called.
\* A second call returns at once; the first removes, from every provider in
\* `subscriptions`, the handler the Map holds for it.
cancel ==
    /\ thrown = NoError
    /\ subscriptionIsActive' = FALSE
    /\ listeners' = IF subscriptionIsActive
                    THEN listeners \ {<<pr, subscriptions[pr]>> : pr \in DOMAIN subscriptions}
                    ELSE listeners
    /\ UNCHANGED <<legacy, keys, values, constraints, staticVars, liveGraph, thrown,
                   subscriptions, version, cascades, liveTimers, onChangeCalls,
                   providers, graphVars>>

(***************************************************************************)
(* Initial states of live validation: the state liveValidate returns in.   *)
(***************************************************************************)
LiveKeyChoices ==
    {<<"a", "b">>}

LiveValueChoices ==
    {Hi, PromiseOf(Hi)}

\* The constraint of the first field: none, validators, or validators and a
\* dependency on the second field (a cycle when that one depends on the first).
FirstConstraintChoices ==
    {NoConstraint}
    \cup {Constraint(FALSE, <<>>, FALSE, TRUE, n) : n \in 1..MaxValidators}
    \cup {Constraint(TRUE, <<"b">>, FALSE, TRUE, 1)}

\* The constraint of the second field: none, validators, or a dependency on the
\* first field or on no field at all, with and without validators.
SecondConstraintChoices ==
    {NoConstraint, Constraint(FALSE, <<>>, FALSE, TRUE, 1)}
    \cup {Constraint(TRUE, <<d>>, FALSE, n > 0, n) : d \in {"a", "z"}, n \in 0..1}

\* Whether a change event carries a local callback.
LocalChoices ==
    {TRUE}

\* The loop that attaches the handlers: subscriptions.set(valueProvider,
\* keyChangeHandler) for every key, a later key replacing the entry of an
\* earlier one with the same provider.
RECURSIVE attachListeners(_, _, _)
attachListeners(subs, providerOf, todo) ==
    IF todo = <<>> THEN subs
    ELSE attachListeners(MapSet(subs, providerOf[Head(todo)], Head(todo)),
                         providerOf, Tail(todo))

\* liveValidate(nodes, constraints, globalChangeCallback): the graph is built
\* and a change handler is attached to every provider.
liveValidate ==
    LET dependencyMap == buildDependencyMap(constraints)
        built == addAllConstraints(addAllNodes(NewGraph, keys, constraints),
                                   keys, dependencyMap)
    IN  /\ liveGraph = built.graph
        /\ thrown = built.err
        /\ subscriptionIsActive = TRUE
        /\ subscriptions = IF built.err = NoError
                           THEN attachListeners(EmptyMap, providers, keys)
                           ELSE EmptyMap
        /\ listeners = IF built.err = NoError
                       THEN {<<providers[k], k>> : k \in Range(keys)}
                       ELSE {}
        /\ version = [k \in Range(keys) |-> 0]
        /\ cascades = <<>>
        /\ liveTimers = <<>>
        /\ onChangeCalls = <<>>

\* Every field has a value provider of its own.
InitLive ==
    /\ InputsInit(FALSE, LiveKeyChoices, LiveValueChoices,
                  FirstConstraintChoices \cup SecondConstraintChoices)
    /\ constraints["a"] \in FirstConstraintChoices
    /\ constraints["b"] \in SecondConstraintChoices
    /\ StaticIdle
    /\ GraphIdle
    /\ providers = [k \in Range(keys) |-> k]
    /\ liveValidate

NextLive ==
    \/ \E node \in Ids, local \in LocalChoices : change(node, local)
    \/ \E i \in DOMAIN cascades : \E path \in DOMAIN cascades[i].visits :
          liveResolveValue(i, path)
    \/ \E i \in DOMAIN cascades : \E path \in DOMAIN cascades[i].visits :
          liveResolveDependencies(i, path)
    \/ \E i \in DOMAIN cascades : \E path \in DOMAIN cascades[i].visits :
          \E idx \in 1..MaxValidators :
             \E e \in ValidatorOutcomes(NodeOf(path), idx) :
                liveSettleValidator(i, path, idx, e)
    \/ liveTimeout
    \/ cancel

SpecLive ==
    InitLive /\ [][NextLive]_vars

(***************************************************************************)
(* A Graph object of its own, and calls of its methods in any order.       *)
(* graphError is what the last call threw.                                 *)
(***************************************************************************)
\* The most edges the graph is given.
MaxGraphEdges == 2

RECURSIVE EdgeCount(_, _)
EdgeCount(graph, todo) ==
    IF todo = <<>> THEN 0
    ELSE Len(graph.outgoingEdges[Head(todo)]) + EdgeCount(graph, Tail(todo))

GraphNodeChoices ==
    {"a", "b", "c"}

GraphDataChoices ==
    {NoConstraint, Constraint(FALSE, <<>>, FALSE, TRUE, 1)}

InitGraph ==
    /\ legacy = FALSE
    /\ keys = <<>>
    /\ values = EmptyMap
    /\ constraints = [id \in Ids |-> NoConstraint]
    /\ StaticIdle
    /\ LiveIdle
    /\ GraphIdle

\* The record of a call: the argument slots a method does not have are blank.
GraphCall(op, node, other, leavesOnly, data) ==
    [op |-> op, node |-> node, other |-> other, leavesOnly |-> leavesOnly, data |-> data]

callAddNode(node, data) ==
    /\ dependencyGraph' = addNode(dependencyGraph, node, data)
    /\ graphError' = NoError
    /\ graphCall' = GraphCall("addNode", node, "", FALSE, data)
    /\ graphResult' = <<>>
    /\ UNCHANGED <<legacy, keys, values, constraints, staticVars, liveVars>>

callSetNodeData(node, data) ==
    /\ dependencyGraph' = setNodeData(dependencyGraph, node, data).graph
    /\ graphError' = setNodeData(dependencyGraph, node, data).err
    /\ graphCall' = GraphCall("setNodeData", node, "", FALSE, data)
    /\ graphResult' = <<>>
    /\ UNCHANGED <<legacy, keys, values, constraints, staticVars, liveVars>>

callAddDependency(fromNode, toNode) ==
    /\ EdgeCount(addDependency(dependencyGraph, fromNode, toNode).graph,
                 dependencyGraph.nodes) <= MaxGraphEdges
    /\ dependencyGraph' = addDependency(dependencyGraph, fromNode, toNode).graph
    /\ graphError' = addDependency(dependencyGraph, fromNode, toNode).err
    /\ graphCall' = GraphCall("addDependency", fromNode, toNode, FALSE, NoConstraint)
    /\ graphResult' = <<>>
    /\ UNCHANGED <<legacy, keys, values, constraints, staticVars, liveVars>>

callRemoveDependency(fromNode, toNode) ==
    /\ dependencyGraph' = removeDependency(dependencyGraph, fromNode, toNode)
    /\ graphError' = NoError
    /\ graphCall' = GraphCall("removeDependency", fromNode, toNode, FALSE, NoConstraint)
    /\ graphResult' = <<>>
    /\ UNCHANGED <<legacy, keys, values, constraints, staticVars, liveVars>>

callGetNodeData(node) ==
    /\ graphError' = getNodeData(dependencyGraph, node).err
    /\ graphResult' = getNodeData(dependencyGraph, node).result
    /\ graphCall' = GraphCall("getNodeData", node, "", FALSE, NoConstraint)
    /\ UNCHANGED <<legacy, keys, values, constraints, staticVars, liveVars, dependencyGraph>>

callDependenciesOf(node, leavesOnly) ==
    /\ graphError' = dependenciesOf(dependencyGraph, node, leavesOnly).err
    /\ graphResult' = dependenciesOf(dependencyGraph, node, leavesOnly).result
    /\ graphCall' = GraphCall("dependenciesOf", node, "", leavesOnly, NoConstraint)
    /\ UNCHANGED <<legacy, keys, values, constraints, staticVars, liveVars, dependencyGraph>>

callDependantsOf(node, leavesOnly) ==
    /\ graphError' = dependantsOf(dependencyGraph, node, leavesOnly).err
    /\ graphResult' = dependantsOf(dependencyGraph, node, leavesOnly).result
    /\ graphCall' = GraphCall("dependantsOf", node, "", leavesOnly, NoConstraint)
    /\ UNCHANGED <<legacy, keys, values, constraints, staticVars, liveVars, dependencyGraph>>

callOverallOrder(leavesOnly) ==
    /\ graphError' = overallOrder(dependencyGraph, leavesOnly).err
    /\ graphResult' = overallOrder(dependencyGraph, leavesOnly).order
    /\ graphCall' = GraphCall("overallOrder", "", "", leavesOnly, NoConstraint)
    /\ UNCHANGED <<legacy, keys, values, constraints, staticVars, liveVars, dependencyGraph>>

NextGraph ==
    \/ \E node \in GraphNodeChoices, data \in GraphDataChoices : callAddNode(node, data)
    \/ \E node \in GraphNodeChoices, data \in GraphDataChoices : callSetNodeData(node, data)
    \/ \E fromNode, toNode \in GraphNodeChoices : callAddDependency(fromNode, toNode)
    \/ \E fromNode, toNode \in GraphNodeChoices : callRemoveDependency(fromNode, toNode)
    \/ \E node \in GraphNodeChoices : callGetNodeData(node)
    \/ \E node \in GraphNodeChoices, leavesOnly \in BOOLEAN : callDependenciesOf(node, leavesOnly)
    \/ \E node \in GraphNodeChoices, leavesOnly \in BOOLEAN : callDependantsOf(node, leavesOnly)
    \/ \E leavesOnly \in BOOLEAN : callOverallOrder(leavesOnly)

SpecGraph ==
    InitGraph /\ [][NextGraph]_vars

(***************************************************************************)
(* The subscriptions of liveValidate: the listeners it attaches, the       *)
(* canceller, and 'change' events emitted after the canceller was called.  *)
(***************************************************************************)
\* Every field has a provider of its own, or the two fields are given the
\* same provider object.
LiveProviderChoices ==
    {[k \in {"a", "b"} |-> k], [k \in {"a", "b"} |-> "a"]}

\* Fields with the same provider have the same value: what its getValue() returns.
SameProviderSameValue ==
    \A k, m \in Range(keys) : providers[k] = providers[m] => values[k] = values[m]

InitSubscriptions ==
    /\ InputsInit(FALSE, LiveKeyChoices, LiveValueChoices,
                  FirstConstraintChoices \cup SecondConstraintChoices)
    /\ constraints["a"] \in FirstConstraintChoices
    /\ constraints["b"] \in SecondConstraintChoices
    /\ StaticIdle
    /\ GraphIdle
    /\ providers \in LiveProviderChoices
    /\ SameProviderSameValue
    /\ liveValidate

\* The handlers of the fields in `todo` that are still listeners of provider pr
\* are called, in the order they were attached, once the subscription is
\* cancelled: each calls the local callback and returns.
RECURSIVE callListeners(_, _, _, _)
callListeners(queue, pr, local, todo) ==
    IF todo = <<>> THEN queue
    ELSE callListeners(IF <<pr, Head(todo)>> \in listeners
                       THEN Append(queue, IdleCascade(Head(todo), local))
                       ELSE queue,
                       pr, local, Tail(todo))

\* A 'change' event is emitted on provider pr after the canceller was called.
emit(pr, local) ==
    /\ thrown = NoError
    /\ ~subscriptionIsActive
    /\ pr \in Range(keys)
    /\ Len(callListeners(cascades, pr, local, keys)) <= MaxChanges
    /\ cascades' = callListeners(cascades, pr, local, keys)
    /\ UNCHANGED <<legacy, keys, values, constraints, staticVars, liveGraph, thrown,
                   subscriptionIsActive, subscriptions, version, liveTimers, onChangeCalls,
                   providers, listeners, graphVars>>

NextSubscriptions ==
    \/ cancel
    \/ \E pr \in Ids, local \in LocalChoices : emit(pr, local)

SpecSubscriptions ==
    InitSubscriptions /\ [][NextSubscriptions]_vars

(***************************************************************************)
(* Live validation of three fields: b depends on a, and c depends on a, on *)
(* b or on both (a diamond); b may be without validators, and the text of  *)
(* b may be empty.                                                         *)
(***************************************************************************)
\* The values of a, b and c: a and c hold a text or a Promise of one, b a text
\* that may be empty.
CascadeValueChoices ==
    {[a |-> va, b |-> vb, c |-> vc] :
        va \in {Hi, PromiseOf(Hi)}, vb \in {Hi, Str(<<>>)}, vc \in {Hi, PromiseOf(Hi)}}

\* The constraints of a, b and c.
CascadeConstraintChoices ==
    {[a |-> ca, b |-> cb, c |-> cc, z |-> NoConstraint] :
        ca \in {NoConstraint, Constraint(FALSE, <<>>, FALSE, TRUE, 1)},
        cb \in {Constraint(TRUE, <<"a">>, TRUE, TRUE, 1),
                Constraint(TRUE, <<"a">>, FALSE, FALSE, 0)},
        cc \in {Constraint(TRUE, <<"a", "b">>, FALSE, TRUE, 1),
                Constraint(TRUE, <<"b">>, FALSE, TRUE, 1),
                Constraint(TRUE, <<"a">>, FALSE, TRUE, 1)}}

InitCascade ==
    /\ legacy = FALSE
    /\ keys = <<"a", "b", "c">>
    /\ values \in CascadeValueChoices
    /\ constraints \in CascadeConstraintChoices
    /\ TotalValidators(constraints, keys) <= MaxValidators
    /\ Cardinality({k \in Range(keys) : values[k].t = "promise"}) <= MaxPromises
    /\ StaticIdle
    /\ GraphIdle
    /\ providers = [k \in Range(keys) |-> k]
    /\ liveValidate

\* One change event and the cascade it starts are followed.
NextCascade ==
    \/ \E node \in Ids, local \in LocalChoices : cascades = <<>> /\ change(node, local)
    \/ \E i \in DOMAIN cascades : \E path \in DOMAIN cascades[i].visits :
          liveResolveValue(i, path)
    \/ \E i \in DOMAIN cascades : \E path \in DOMAIN cascades[i].visits :
          liveResolveDependencies(i, path)
    \/ \E i \in DOMAIN cascades : \E path \in DOMAIN cascades[i].visits :
          \E idx \in 1..MaxValidators :
             \E e \in ValidatorOutcomes(NodeOf(path), idx) :
                liveSettleValidator(i, path, idx, e)
    \/ liveTimeout
    \/ cancel

SpecCascade ==
    InitCascade /\ [][NextCascade]_vars

(***************************************************************************)
(* One change of field a, on which two branches depend: b, with its          *)
(* dependant z, and c.  b and c each declare one validator, z declares none. *)
(***************************************************************************)
\* The values of a, b, c and z: a and b hold a text or a Promise of one.
BranchValueChoices ==
    {[a |-> va, b |-> vb, c |-> Hi, z |-> Hi] :
        va \in {Hi, PromiseOf(Hi)}, vb \in {Hi, PromiseOf(Hi)}}

\* The constraints of a, b, c and z.
BranchConstraints ==
    [a |-> NoConstraint,
     b |-> Constraint(TRUE, <<"a">>, FALSE, TRUE, 1),
     c |-> Constraint(TRUE, <<"a">>, FALSE, TRUE, 1),
     z |-> Constraint(TRUE, <<"b">>, FALSE, FALSE, 0)]

InitBranches ==
    /\ legacy = FALSE
    /\ keys = <<"a", "b", "c", "z">>
    /\ values \in BranchValueChoices
    /\ constraints = BranchConstraints
    /\ TotalValidators(constraints, keys) <= MaxValidators
    /\ StaticIdle
    /\ GraphIdle
    /\ providers = [k \in Range(keys) |-> k]
    /\ liveValidate

\* The change events of field a and the cascades they start are followed.
NextBranches ==
    \/ \E local \in LocalChoices : change("a", local)
    \/ \E i \in DOMAIN cascades : \E path \in DOMAIN cascades[i].visits :
          liveResolveValue(i, path)
    \/ \E i \in DOMAIN cascades : \E path \in DOMAIN cascades[i].visits :
          liveResolveDependencies(i, path)
    \/ \E i \in DOMAIN cascades : \E path \in DOMAIN cascades[i].visits :
          \E idx \in 1..MaxValidators :
             \E e \in ValidatorOutcomes(NodeOf(path), idx) :
                liveSettleValidator(i, path, idx, e)
    \/ liveTimeout
    \/ cancel

SpecBranches ==
    InitBranches /\ [][NextBranches]_vars

\* The timers fire: the event loop runs every timer that is due.
SpecLiveFair ==
    SpecLive /\ WF_vars(liveTimeout)

\* The timers fire: the event loop runs every timer that is due.
SpecFair ==
    Spec /\ WF_vars(timeout)

(***************************************************************************)
(* Notions the properties of static validation are stated with.            *)
(***************************************************************************)
IsSettled ==
    result.status \in {"resolved", "rejected"}

\* The identifiers field f declares as its dependencies.
DeclaredDependencies(f) ==
    IF constraints[f].defined /\ constraints[f].hasDependencies
    THEN Range(constraints[f].dependencies)
    ELSE {}

\* d is reached from f along at most n declared dependencies between keys.
RECURSIVE DependsWithin(_, _, _)
DependsWithin(f, d, n) ==
    /\ n > 0
    /\ f \in Range(keys)
    /\ \/ d \in DeclaredDependencies(f)
       \/ \E m \in DeclaredDependencies(f) : DependsWithin(m, d, n - 1)

HasCycle ==
    \E k \in Range(keys) : DependsWithin(k, k, Len(keys))

DependenciesAreKeys ==
    \A k \in Range(keys) : DeclaredDependencies(k) \subseteq Range(keys)

\* A validator has rejected with an exception that is no ValidationError.
Threw(key, idx) ==
    /\ key \in Range(keys)
    /\ idx \in DOMAIN vstate[key]
    /\ vstate[key][idx] = "threw"

NonValidationRaised ==
    \/ \E key \in Range(keys), idx \in 1..MaxValidators : Threw(key, idx)
    \/ result.error.type \in {"NoSuchNodeGraphError", "NoSuchEdgeGraphError", "GraphCycleError"}

ErrorsOf(errs, key) ==
    IF key \in DOMAIN errs THEN errs[key] ELSE <<>>

(***************************************************************************)
(* C1                                                                      *)
(***************************************************************************)
C1_Decision ==
    (IsSettled /\ ~NonValidationRaised) =>
        /\ \A k \in Pushed(St) : phase[k] = "done"
        /\ (result.status = "resolved") => errors = EmptyMap
        /\ (result.status = "rejected") <=> (AggregateLength(result.errors) > 0)
        /\ (result.status = "rejected") => result.error = ValidationAggregateError
        /\ (result.status = "resolved") => result.error = NoError

C1_Once ==
    IsSettled => result' = result

\* C1: validate settles exactly once; when no exception other than a
\* ValidationError was raised it settles after the work of every field has, and
\* it rejects with the aggregate if and only if the aggregate then holds an entry
\* for at least one field, and resolves otherwise; validate({}, {}) resolves.
C1_SettlesOnce ==
    /\ [](C1_Decision)
    /\ []((keys = <<>> /\ result.status # "idle") => result.status = "resolved")
    /\ [][C1_Once]_vars

C1_Witness ==
    /\ result.status = "rejected"
    /\ result.error = ValidationAggregateError
    /\ ~NonValidationRaised
    /\ \E k \in Range(keys) : k \notin DOMAIN result.errors /\ phase[k] = "done"

C2_Throws(key, idx) ==
    /\ idx \in DOMAIN vstate[key]
    /\ vstate[key][idx] = "pending"
    /\ vstate'[key][idx] = "threw"

C3_Rejected ==
    /\ result.status = "rejected"
    /\ result.error.type = "GraphCycleError"
    /\ \A k \in Range(keys) : ~vargs[k].called /\ phase[k] = "none"

\* C3 as claimed: whenever the declared dependencies form a cycle, validate
\* rejects with the GraphCycleError and has called no validator.
C3_CycleRejects ==
    (HasCycle /\ result.status # "idle") => C3_Rejected

\* C3: when the declared dependencies form a cycle and every declared
\* dependency is a key of values, validate rejects with the GraphCycleError
\* itself, and no validator has been called.
C3_CycleOfKeysRejects ==
    (HasCycle /\ DependenciesAreKeys /\ result.status # "idle") => C3_Rejected

C3_Witness ==
    /\ HasCycle
    /\ result.status = "rejected"
    /\ result.error.type = "GraphCycleError"
    /\ \E k \in Range(keys) : constraints[k].nValidators > 0 /\ DependsWithin(k, k, Len(keys))

(***************************************************************************)
(* C4                                                                      *)
(***************************************************************************)
\* The first callback of the chain of `key` received an empty value and the
\* constraint of `key` sets `required`.
RequiredAndEmpty(key) ==
    /\ constraints[key].defined
    /\ constraints[key].required
    /\ vargs[key].valued
    /\ \/ vargs[key].value.t \in {"null", "undefined"}
       \/ vargs[key].value.t = "string" /\ \A i \in DOMAIN vargs[key].value.s :
                                             vargs[key].value.s[i] \in {" ", "\t", "\n"}
       \/ vargs[key].value.t = "array" /\ vargs[key].value.items = <<>>

BothFailed(key) ==
    /\ constraints[key].nValidators = 2
    /\ vstate[key] = <<"failed", "failed">>

\* C5 as claimed: a field whose two validators both failed has exactly their
\* two errors, in the order the validators are declared.
C5_DeclarationOrder ==
    \A key \in Range(keys) :
        BothFailed(key) =>
            ErrorsOf(errors, key) = <<ValidationError(key, 1), ValidationError(key, 2)>>

C5_Fails(key, idx) ==
    /\ idx \in DOMAIN vstate[key]
    /\ vstate[key][idx] = "pending"
    /\ vstate'[key][idx] = "failed"

\* C5: a field whose two validators both failed before the timeout of the field
\* fired has exactly their two errors, and the error of a validator is appended
\* to the entry of the field when its promise rejects: the entry lists the
\* errors in the order of rejection.
C5_RejectionOrder ==
    /\ [](\A key \in Range(keys) :
            (BothFailed(key) /\ ValidationTimeoutError \notin Range(ErrorsOf(errors, key)))
                => \E i, j \in 1..2 :
                      /\ i # j
                      /\ errors[key] = <<ValidationError(key, i), ValidationError(key, j)>>)
    /\ [][\A key \in Range(keys), idx \in 1..MaxValidators :
            C5_Fails(key, idx) =>
                /\ key \in DOMAIN errors'
                /\ errors'[key] = Append(ErrorsOf(errors, key), ValidationError(key, idx))]_vars

C5_Witness ==
    \E key \in Range(keys) :
        /\ BothFailed(key)
        /\ errors[key] = <<ValidationError(key, 2), ValidationError(key, 1)>>
        /\ result = Settled("rejected", ValidationAggregateError, errors)

(***************************************************************************)
(* C6                                                                      *)
(***************************************************************************)
\* The timeout of the validators of `key` fired before one of them settled.
ValidatorTimedOut(key) ==
    /\ vargs[key].called
    /\ phase[key] = "done"
    /\ \E idx \in DOMAIN vstate[key] : vstate[key][idx] = "pending"

RejectedWithTimeoutOf(key) ==
    /\ result.status = "rejected"
    /\ result.error = ValidationAggregateError
    /\ ValidationTimeoutError \in Range(ErrorsOf(result.errors, key))

\* C6 as claimed: once validate has settled, it has rejected with an aggregate
\* holding a ValidationTimeoutError for every field whose validator did not
\* settle in time.
C6_TimeoutAggregated ==
    \A key \in Range(keys) :
        (ValidatorTimedOut(key) /\ IsSettled) => RejectedWithTimeoutOf(key)

\* C6: a field whose validator does not settle before the timeout fires gets a
\* ValidationTimeoutError, and validate, unless it has rejected with an
\* exception that is no ValidationError, rejects with an aggregate whose entry
\* for the field holds it; a called validate always settles, whatever value,
\* dependency or validator never does.
C6_TimeoutSettles ==
    /\ [](\A key \in Range(keys) :
            ValidatorTimedOut(key) =>
                /\ ValidationTimeoutError \in Range(ErrorsOf(errors, key))
                /\ IsSettled =>
                      \/ RejectedWithTimeoutOf(key)
                      \/ result.status = "rejected" /\ result.error.type = "Error")
    /\ (result.status = "pending") ~> IsSettled

C6_Witness ==
    \E key \in Range(keys) :
        /\ ValidatorTimedOut(key)
        /\ RejectedWithTimeoutOf(key)
        /\ \E other \in Range(keys) : values[other].t = "promise" /\ promised[other] = "pending"

(***************************************************************************)
(* C7                                                                      *)
(***************************************************************************)
\* What a validator is to see of field d: its value, what its Promise resolved
\* to, or undefined when there is no value.
SeenValue(d) ==
    IF d \notin Range(keys) \/ values[d].t \in {"null", "undefined"} THEN Undefined
    ELSE IF values[d].t = "promise" THEN values[d].to
    ELSE values[d]

\* C7: the validators of a field are called with the resolved value of the
\* field, never a Promise, and, when the field declares dependencies, with a map
\* whose keys are exactly the declared identifiers, each mapped to the resolved
\* value of that field, or to undefined when it has none; the Promises among
\* them have resolved by then.  A field that declares none gets no map.
C7_ResolvedArguments ==
    \A key \in Range(keys) :
        vargs[key].called =>
            /\ vargs[key].value.t # "promise"
            /\ vargs[key].value = IF values[key].t = "promise" THEN values[key].to
                                  ELSE values[key]
            /\ values[key].t = "promise" => promised[key] = "resolved"
            /\ vargs[key].dependencies.defined <=> constraints[key].hasDependencies
            /\ vargs[key].dependencies.defined =>
                  /\ DOMAIN vargs[key].dependencies.map = DeclaredDependencies(key)
                  /\ \A d \in DeclaredDependencies(key) :
                        /\ vargs[key].dependencies.map[d] = SeenValue(d)
                        /\ vargs[key].dependencies.map[d].t # "promise"
                        /\ values[d].t = "promise" => promised[d] = "resolved"

C7_Witness ==
    \E key \in Range(keys), d, u \in Range(keys) :
        /\ vargs[key].called
        /\ DeclaredDependencies(key) = {d}
        /\ values[d] = PromiseOf(Hi)
        /\ vargs[key].dependencies.map[d] = Hi
        /\ vargs[u].called
        /\ \E n \in DeclaredDependencies(u) : vargs[u].dependencies.map[n] = Undefined

(***************************************************************************)
(* C8                                                                      *)
(***************************************************************************)
\* C8 as claimed: the validators of a field are called only after the
\* validators of every field it declares as a dependency.
C8_DependenciesFirst ==
    \A f \in Range(keys) :
        \A d \in DeclaredDependencies(f) \cap Range(keys) :
            (vargs[f].called /\ constraints[d].nValidators > 0) => vargs[d].called

(***************************************************************************)
(* Notions the properties of live validation are stated with.              *)
(***************************************************************************)
\* The global change callback has been called for cascade i.
ReportedIn(calls, i) ==
    \E k \in DOMAIN calls : calls[k].cascade = i

Reported(i) ==
    ReportedIn(onChangeCalls, i)

\* Cascade i is the one the latest change of its field started.
Latest(i) ==
    /\ i \in DOMAIN cascades
    /\ cascades[i].started
    /\ cascades[i].version = version[cascades[i].node]

\* The change events of the field of cascade i that started a cascade, up to i.
ChangesUpTo(i) ==
    {j \in 1..i : cascades[j].started /\ cascades[j].node = cascades[i].node}

(***************************************************************************)
(* C9                                                                      *)
(***************************************************************************)
\* The version of a cascade is the number of its change among the changes of
\* its field, the version of a field is the number of its changes, and no
\* cascade calls the global change callback twice.
C9_Versions ==
    /\ \A i \in DOMAIN cascades :
          cascades[i].started => cascades[i].version = Cardinality(ChangesUpTo(i))
    /\ \A f \in Range(keys) :
          version[f] = Cardinality({j \in DOMAIN cascades :
                                      cascades[j].started /\ cascades[j].node = f})
    /\ \A i \in DOMAIN cascades :
          Cardinality({k \in DOMAIN onChangeCalls : onChangeCalls[k].cascade = i}) <= 1

\* Cascade i settles in this step.
C9_Settles(i) ==
    /\ i \in DOMAIN cascades'
    /\ cascades'[i].status \in {"fulfilled", "rejected"}
    /\ i \in DOMAIN cascades => cascades[i].status = "pending"

C9_Reports ==
    \A i \in 1..MaxChanges :
        /\ (i \in DOMAIN cascades' /\ ReportedIn(onChangeCalls', i) /\ ~Reported(i)) =>
              /\ C9_Settles(i)
              /\ cascades'[i].version = version'[cascades'[i].node]
        /\ (C9_Settles(i) /\ cascades'[i].version = version'[cascades'[i].node]
                          /\ subscriptionIsActive') => ReportedIn(onChangeCalls', i)

\* C9: the cascade of the N-th change of a field calls the global change
\* callback only in the step in which it settles and only if N is then still
\* the version of that field; a cascade a later change of the same field has
\* superseded never calls it; the changes of other fields do not count: while
\* the subscription is active, a cascade that settles with N still the version
\* of its field does call it.
C9_OnlyCurrent ==
    /\ [](C9_Versions)
    /\ [][C9_Reports]_vars

C9_Witness ==
    \E i, j \in DOMAIN cascades :
        /\ i < j
        /\ cascades[i].node = cascades[j].node
        /\ cascades[i].status \in {"fulfilled", "rejected"}
        /\ ~Reported(i)
        /\ Reported(j)
        /\ subscriptionIsActive
        /\ onChangeCalls[1].cascade = j
        /\ cascades[i].visits[<<cascades[i].node>>].called

(***************************************************************************)
(* C10                                                                     *)
(***************************************************************************)
C10_Settled ==
    \A i \in DOMAIN cascades :
        (Latest(i) /\ subscriptionIsActive /\ cascades[i].status # "pending")
            => \E k \in DOMAIN onChangeCalls :
                  /\ onChangeCalls[k].cascade = i
                  /\ \A n \in DOMAIN onChangeCalls[k].changeMap.errors :
                        n \in DOMAIN cascades[i].changeMap.errors

\* C10: when the declared dependencies form no cycle, the cascade of the latest
\* change of a field calls the global change callback with its change map,
\* unless the subscription is cancelled or the field changes again first:
\* every cascade settles, whatever value or validator never does.
C10_LatestReports ==
    /\ [](C10_Settled)
    /\ \A i \in 1..MaxChanges :
          (Latest(i) /\ ~HasCycle) ~> (Reported(i) \/ ~Latest(i) \/ ~subscriptionIsActive)

C10_Witness ==
    \E i \in DOMAIN cascades :
        /\ Latest(i)
        /\ ~HasCycle
        /\ Reported(i)
        /\ \E path \in DOMAIN cascades[i].visits :
              /\ Len(path) = 2
              /\ cascades[i].visits[path].called
              /\ cascades[i].visits[path].vstate[1] = "pending"
        /\ \E n \in DOMAIN cascades[i].changeMap.errors :
              ValidationTimeoutError \in Range(cascades[i].changeMap.errors[n])

(***************************************************************************)
(* Notions the properties of one live cascade are stated with.             *)
(***************************************************************************)
\* The fields that declare f as a dependency: the dependants of f.
Dependants(f) ==
    Range(liveGraph.outgoingEdges[f])

\* A validator of the call of validateNode for `path` in cascade i has
\* rejected with a ValidationError.
OwnFailed(i, path) ==
    \E idx \in DOMAIN cascades[i].visits[path].vstate :
        cascades[i].visits[path].vstate[idx] = "failed"

\* The validators of field d have been called in cascade i.
ValidatedIn(i, d) ==
    \E q \in DOMAIN cascades[i].visits : NodeOf(q) = d /\ cascades[i].visits[q].called

\* Field d is a key of the change map of cascade i.
ChangedIn(i, d) ==
    d \in DOMAIN cascades[i].changeMap.errors

(***************************************************************************)
(* C11                                                                     *)
(***************************************************************************)
\* C11 as claimed: in a cascade in which a validator of a field has failed with
\* a ValidationError, no dependant of that field has its validators called or
\* is a key of the change map.
C11_DependantsUntouched ==
    \A i \in DOMAIN cascades : \A path \in DOMAIN cascades[i].visits :
        OwnFailed(i, path) =>
            \A d \in Dependants(NodeOf(path)) : ~ValidatedIn(i, d) /\ ~ChangedIn(i, d)

(***************************************************************************)
(* C12                                                                     *)
(***************************************************************************)
\* The validators of the call for `path` in cascade i were called and all passed.
OwnPassed(i, path) ==
    /\ path \in DOMAIN cascades[i].visits
    /\ cascades[i].visits[path].called
    /\ cascades[i].visits[path].vstate # <<>>
    /\ \A idx \in DOMAIN cascades[i].visits[path].vstate :
          cascades[i].visits[path].vstate[idx] = "passed"

HasValidators(f) ==
    constraints[f].defined /\ constraints[f].hasValidators /\ constraints[f].nValidators > 0

\* The text "hi" after k edits.
RECURSIVE EditedTimes(_, _)
EditedTimes(value, k) ==
    IF k = 0 THEN value ELSE EditedTimes(Edited(value), k - 1)

\* The edits of the provider of field d up to and including the change event
\* that started cascade i, and all its edits so far.
EditsUpTo(i, d) ==
    Cardinality({j \in 1..i : providers[cascades[j].node] = providers[d]})

Edits(d) ==
    Cardinality({j \in DOMAIN cascades : providers[cascades[j].node] = providers[d]})

\* v is what the provider of d held at the change event of cascade i or later.
NewIn(i, d, v) ==
    \E k \in EditsUpTo(i, d)..Edits(d) : v = EditedTimes(Hi, k)

\* The validators of a field are called with a value of the field and a map of
\* its declared dependencies that are no older than the change event of the
\* cascade.
C12_Arguments ==
    \A i \in DOMAIN cascades : \A q \in DOMAIN cascades[i].visits :
        cascades[i].visits[q].called =>
            /\ NewIn(i, NodeOf(q), cascades[i].visits[q].value)
            /\ DOMAIN cascades[i].visits[q].dependencies = DeclaredDependencies(NodeOf(q))
            /\ \A d \in DeclaredDependencies(NodeOf(q)) :
                  NewIn(i, d, cascades[i].visits[q].dependencies[d])

\* Cascade i, reported to the global callback, is one in which the validators
\* of the changed field passed, and b is a dependant of that field with validators.
C12_Passed(i, b) ==
    /\ Reported(i)
    /\ OwnPassed(i, <<cascades[i].node>>)
    /\ b \in Dependants(cascades[i].node)
    /\ HasValidators(b)

\* C12 as claimed: when the validators of the changed field pass, the validators
\* of a dependant have been called, with its value and the new value of the
\* changed field, and both fields are keys of the change map given to onChange.
C12_DependantValidated ==
    /\ C12_Arguments
    /\ \A i \in DOMAIN cascades : \A b \in Range(keys) :
          C12_Passed(i, b) =>
              /\ ChangedIn(i, cascades[i].node)
              /\ ChangedIn(i, b)
              /\ ValidatedIn(i, b)

\* C12: when the validators of the changed field pass, a dependant with
\* validators is a key of the change map given to onChange, as is the changed
\* field, and its validators have been called, with its value and a map holding
\* the new value of the changed field, unless its value or the values of its
\* dependencies did not arrive before the timeout: then its entry holds a
\* ValidationTimeoutError.
C12_DependantReached ==
    /\ C12_Arguments
    /\ \A i \in DOMAIN cascades : \A b \in Range(keys) :
          C12_Passed(i, b) =>
              /\ ChangedIn(i, cascades[i].node)
              /\ ChangedIn(i, b)
              /\ \/ ValidatedIn(i, b)
                 \/ ValidationTimeoutError \in Range(cascades[i].changeMap.errors[b])

C12_Witness ==
    \E i \in DOMAIN cascades :
        /\ C12_Passed(i, "b")
        /\ cascades[i].node = "a"
        /\ cascades[i].visits[<<"a", "b">>].called
        /\ cascades[i].visits[<<"a", "b">>].dependencies = [a |-> EditedTimes(Hi, 1)]
        /\ cascades[i].changeMap.order = <<"a", "b">>

(***************************************************************************)
(* C15                                                                     *)
(***************************************************************************)
\* C15: once the canceller has been called, no 'change' listener that
\* liveValidate attached is left on any value provider.
C15_AllDetached ==
    ~subscriptionIsActive => listeners = {}

(***************************************************************************)
(* C13                                                                     *)
(***************************************************************************)
\* The calls of validateNode whose validators have been called.
Called ==
    {x \in (DOMAIN cascades) \X UNION {DOMAIN cascades[j].visits : j \in DOMAIN cascades} :
        x[2] \in DOMAIN cascades[x[1]].visits /\ cascades[x[1]].visits[x[2]].called}

\* C13: once the canceller has been called no validator is started: not by a
\* change event that comes later, and not by a cascade that was under way, at
\* the point where its value or its dependencies arrive or where it would go
\* on to the dependants.
C13_NoValidatorStarted ==
    [][~subscriptionIsActive => Called' = Called]_vars

\* After cancellation a cascade that was waiting for a value has ended without
\* calling the validators of its field, and a change event has come since.
C13_Witness ==
    /\ ~subscriptionIsActive
    /\ \E i, j \in DOMAIN cascades :
          /\ i < j
          /\ cascades[i].started
          /\ ~cascades[j].started
          /\ \E q \in DOMAIN cascades[i].visits :
                /\ HasValidators(NodeOf(q))
                /\ cascades[i].visits[q].phase = "done"
                /\ ~cascades[i].visits[q].called

(***************************************************************************)
(* C14                                                                     *)
(***************************************************************************)
\* C14: once the canceller has been called the global onChange callback is not
\* called again, whatever settles afterwards.
C14_NoReportAfterCancel ==
    [][~subscriptionIsActive => onChangeCalls' = onChangeCalls]_vars

\* Cascade i, still the latest of its field, settled with `status` and was not
\* reported: it settled after the canceller was called.
C14_Silenced(i, status) ==
    /\ cascades[i].started
    /\ cascades[i].status = status
    /\ cascades[i].version = version[cascades[i].node]
    /\ ~Reported(i)

C14_Witness ==
    /\ ~subscriptionIsActive
    /\ \E i, j \in DOMAIN cascades :
          C14_Silenced(i, "fulfilled") /\ C14_Silenced(j, "rejected")

(***************************************************************************)
(* C16                                                                     *)
(***************************************************************************)
\* C16 as claimed: in one cascade, when the validators of a field have been
\* called, the validators of every field it depends on that is validated in the
\* same cascade have all settled before.
C16_DependenciesSettledFirst ==
    \A i \in DOMAIN cascades : \A q, p \in DOMAIN cascades[i].visits :
        /\ cascades[i].visits[q].called
        /\ cascades[i].visits[p].called
        /\ NodeOf(p) \in DeclaredDependencies(NodeOf(q))
        => \A idx \in DOMAIN cascades[i].visits[p].vstate :
              cascades[i].visits[p].vstate[idx] # "pending"

(***************************************************************************)
(* C17                                                                     *)
(***************************************************************************)
\* The fields that can be reached from f along the edges of the graph.
RECURSIVE ReachableFrom(_, _)
ReachableFrom(fs, n) ==
    IF n = 0 THEN fs
    ELSE ReachableFrom(fs \cup UNION {Dependants(f) : f \in fs}, n - 1)

TransitiveDependants(f) ==
    ReachableFrom({f}, Len(keys))

\* C17 as claimed: a cascade that fulfilled with no error in its change map,
\* with the subscription active, has visited the changed field and every field
\* reachable from it: each is a key of the change map given to onChange, and
\* the validators of each that has validators have been called.
C17_CoversDependants ==
    \A k \in DOMAIN onChangeCalls :
        LET i == onChangeCalls[k].cascade
        IN  (cascades[i].status = "fulfilled" /\ ~hasErrors(onChangeCalls[k].changeMap)) =>
                \A d \in TransitiveDependants(cascades[i].node) :
                    /\ d \in DOMAIN onChangeCalls[k].changeMap.errors
                    /\ HasValidators(d) => ValidatedIn(i, d)

(***************************************************************************)
(* C18                                                                     *)
(***************************************************************************)
\* Validator idx of the call for `path` in cascade i has rejected with an
\* exception that is no ValidationError.
LiveThrew(i, path, idx) ==
    /\ path \in DOMAIN cascades[i].visits
    /\ idx \in DOMAIN cascades[i].visits[path].vstate
    /\ cascades[i].visits[path].vstate[idx] = "threw"

\* Every error a change map holds is a ValidationError.
OnlyValidationErrorsRecorded ==
    \A i \in DOMAIN cascades : \A k \in DOMAIN cascades[i].changeMap.errors :
        \A e \in Range(cascades[i].changeMap.errors[k]) : InstanceOfValidationError(e)

AllPaths ==
    UNION {DOMAIN cascades[j].visits : j \in DOMAIN cascades}

C18_Throws(i, path, idx) ==
    /\ path \in DOMAIN cascades[i].visits
    /\ idx \in DOMAIN cascades[i].visits[path].vstate
    /\ cascades[i].visits[path].vstate[idx] = "pending"
    /\ cascades[i].visits[path].phase = "validators"
    /\ cascades[i].status = "pending"
    /\ LiveThrew(i, path, idx)'

C19_EmptySkipped ==
    \A i \in DOMAIN cascades : \A q \in DOMAIN cascades[i].visits :
        isEmpty(Resolved(cascades[i].visits[q].value)) =>
            /\ ~cascades[i].visits[q].called
            /\ cascades[i].changeMap.errors[NodeOf(q)] = <<>>

(***************************************************************************)
(* C20                                                                     *)
(***************************************************************************)
\* C20: whatever calls of addNode, setNodeData, addDependency and
\* removeDependency were made, failing ones included, every node has an entry
\* in both adjacency maps and every end of a stored edge is a node.
C20_AdjacencyConsistent ==
    /\ DOMAIN dependencyGraph.data = Range(dependencyGraph.nodes)
    /\ DOMAIN dependencyGraph.incomingEdges = Range(dependencyGraph.nodes)
    /\ DOMAIN dependencyGraph.outgoingEdges = Range(dependencyGraph.nodes)
    /\ \A n \in Range(dependencyGraph.nodes) :
          /\ Range(dependencyGraph.incomingEdges[n]) \subseteq Range(dependencyGraph.nodes)
          /\ Range(dependencyGraph.outgoingEdges[n]) \subseteq Range(dependencyGraph.nodes)

\* A graph with an edge between two nodes on which the last call, one that
\* named a node that does not exist, threw.
C20_Witness ==
    /\ graphError.type = "NoSuchNodeGraphError"
    /\ \E n, m \in Range(dependencyGraph.nodes) :
          /\ n # m
          /\ m \in Range(dependencyGraph.outgoingEdges[n])
          /\ n \in Range(dependencyGraph.incomingEdges[m])

(***************************************************************************)
(* C21                                                                     *)
(***************************************************************************)
GraphNodes ==
    Range(dependencyGraph.nodes)

\* C21: addDependency(from, to) with from or to not a node of the graph throws
\* a NoSuchNodeGraphError for a missing one, and leaves the nodes, their data
\* and both adjacency maps as they were.
C21_MissingNodeThrows ==
    [][\A f, t \in GraphNodeChoices :
          (graphCall' = GraphCall("addDependency", f, t, FALSE, NoConstraint)
             /\ (f \notin GraphNodes \/ t \notin GraphNodes))
          => /\ graphError'.type = "NoSuchNodeGraphError"
             /\ graphError'.node \in {f, t} \ GraphNodes
             /\ dependencyGraph' = dependencyGraph]_vars

\* addDependency was called on a graph with an edge, from a node to a name
\* that is no node, and threw.
C21_Witness ==
    /\ graphCall.op = "addDependency"
    /\ graphCall.node \in GraphNodes
    /\ graphCall.other \notin GraphNodes
    /\ graphError = NoSuchNodeGraphError(graphCall.other)
    /\ dependencyGraph.outgoingEdges[graphCall.node] # <<>>

(***************************************************************************)
(* C22                                                                     *)
(***************************************************************************)
\* The edges of a graph as pairs, once as the outgoing sets hold them and once
\* as the incoming sets do.
OutgoingPairs(graph) ==
    {x \in GraphNodeChoices \X GraphNodeChoices :
        x[1] \in DOMAIN graph.outgoingEdges /\ x[2] \in Range(graph.outgoingEdges[x[1]])}

IncomingPairs(graph) ==
    {x \in GraphNodeChoices \X GraphNodeChoices :
        x[2] \in DOMAIN graph.incomingEdges /\ x[1] \in Range(graph.incomingEdges[x[2]])}

\* A sequence with the order of another, less one element.
Without(seq, x) ==
    SelectSeq(seq, LAMBDA y : y # x)

Successors(ns) ==
    UNION {Range(dependencyGraph.outgoingEdges[n]) : n \in ns \cap GraphNodes}

\* The nodes that can be reached from the nodes of ns over at most k more edges.
RECURSIVE ReachedWithin(_, _)
ReachedWithin(ns, k) ==
    IF k = 0 THEN ns ELSE ReachedWithin(ns \cup Successors(ns), k - 1)

\* The nodes that can be reached from n over one or more outgoing edges.
ReachableOver(n) ==
    ReachedWithin(Successors({n}), Cardinality(GraphNodes))

GraphHasCycle ==
    \E n \in GraphNodes : n \in ReachableOver(n)

\* C23: on a graph without a cycle, dependenciesOf(id) with leavesOnly false
\* returns, each once, exactly the nodes that can be reached from id over one
\* or more outgoing edges; id is not among them.
C23_DependenciesAreReachable ==
    (/\ graphCall.op = "dependenciesOf"
     /\ ~graphCall.leavesOnly
     /\ graphCall.node \in GraphNodes
     /\ ~GraphHasCycle)
    => /\ graphError = NoError
       /\ Range(graphResult) = ReachableOver(graphCall.node)
       /\ Len(graphResult) = Cardinality(Range(graphResult))
       /\ graphCall.node \notin Range(graphResult)

\* dependenciesOf returned a node two edges away.
C23_Witness ==
    /\ graphCall.op = "dependenciesOf"
    /\ ~graphCall.leavesOnly
    /\ ~GraphHasCycle
    /\ Len(graphResult) = 2
    /\ \E m \in Range(graphResult) :
          m \notin Range(dependencyGraph.outgoingEdges[graphCall.node])

(***************************************************************************)
(* C24                                                                     *)
(***************************************************************************)
\* The adjacency map the last call searched: dependantsOf follows the incoming
\* edges, the other two the outgoing ones.
SearchedEdges ==
    IF graphCall.op = "dependantsOf" THEN dependencyGraph.incomingEdges
    ELSE dependencyGraph.outgoingEdges

\* path is a cycle of the searched edges: it begins and ends with the same
\* node and each element has an edge to the next.
IsCyclePath(path) ==
    /\ Len(path) >= 2
    /\ path[1] = path[Len(path)]
    /\ \A k \in 1..(Len(path) - 1) :
          /\ path[k] \in DOMAIN SearchedEdges
          /\ path[k + 1] \in Range(SearchedEdges[path[k]])

\* C24 as claimed: the GraphCycleError that overallOrder, dependenciesOf or
\* dependantsOf throws carries a path that begins and ends with the same node
\* and follows the edges, so that all its nodes are on the cycle.
C24_ExactCyclePath ==
    (graphCall.op \in {"overallOrder", "dependenciesOf", "dependantsOf"}
       /\ graphError.type = "GraphCycleError")
    => IsCyclePath(graphError.cycle)

(***************************************************************************)
(* C25                                                                     *)
(***************************************************************************)
\* The nodes without incoming edges.
GraphRoots ==
    {n \in GraphNodes : dependencyGraph.incomingEdges[n] = <<>>}

\* C25: overallOrder throws a GraphCycleError when the graph has a cycle, a
\* self-loop included, wherever it lies, and throws nothing when it has none.
C25_CycleIffError ==
    graphCall.op = "overallOrder" =>
        /\ GraphHasCycle <=> graphError.type = "GraphCycleError"
        /\ ~GraphHasCycle => graphError = NoError

\* overallOrder threw on a graph that has a root from which no node of a
\* cycle can be reached.
C25_Witness ==
    /\ graphCall.op = "overallOrder"
    /\ graphError.type = "GraphCycleError"
    /\ GraphRoots # {}
    /\ \A r \in GraphRoots : \A n \in ReachableOver(r) \cup {r} : n \notin ReachableOver(n)

(***************************************************************************)
(* C26                                                                     *)
(***************************************************************************)
\* The place of x in a sequence that holds it once.
IndexOf(seq, x) ==
    CHOOSE k \in DOMAIN seq : seq[k] = x

\* C26 as claimed: on a graph without a cycle the order overallOrder returns
\* has, for every edge added by addDependency(from, to), from before to.
C26_RootsFirst ==
    (graphCall.op = "overallOrder" /\ ~graphCall.leavesOnly /\ ~GraphHasCycle)
    => \A x \in OutgoingPairs(dependencyGraph) :
          /\ x[1] \in Range(graphResult)
          /\ x[2] \in Range(graphResult)
          /\ IndexOf(graphResult, x[1]) < IndexOf(graphResult, x[2])

(***************************************************************************)
(* C27                                                                     *)
(***************************************************************************)
\* C27: on a graph without a cycle overallOrder with leavesOnly false returns
\* every node of the graph once and nothing else; on a graph without edges the
\* order is that in which the nodes were added.
C27_Permutation ==
    (graphCall.op = "overallOrder" /\ ~graphCall.leavesOnly /\ ~GraphHasCycle)
    => /\ graphError = NoError
       /\ Range(graphResult) = GraphNodes
       /\ Len(graphResult) = Cardinality(GraphNodes)
       /\ OutgoingPairs(dependencyGraph) = {} => graphResult = dependencyGraph.nodes

\* overallOrder returned the three nodes of a graph in which one node can be
\* reached from both of the others.
C27_Witness ==
    /\ graphCall.op = "overallOrder"
    /\ ~graphCall.leavesOnly
    /\ ~GraphHasCycle
    /\ Len(graphResult) = 3
    /\ \E n \in GraphNodes : Len(dependencyGraph.incomingEdges[n]) = 2

(***************************************************************************)
(* C28                                                                     *)
(***************************************************************************)
\* C28 as claimed, for static validation: the ValidationAggregateError with
\* which validate rejected holds, ever after, the errors it held when
\* validate rejected with it.
C28_SurfacedUnchanged ==
    (result.status = "rejected" /\ result.error = ValidationAggregateError)
    => errors = result.errors

\* C28 as claimed, for live validation: a change map that was given to the
\* global callback holds, ever after, what it held then.
C28_ReportedUnchanged ==
    \A k \in DOMAIN onChangeCalls :
        cascades[onChangeCalls[k].cascade].changeMap = onChangeCalls[k].changeMap

(***************************************************************************)
(* C29                                                                     *)
(***************************************************************************)
\* The first callback of the chain of `key` received an empty value, and the
\* constraint of `key` declares validators without setting `required`.
EmptyNotRequired(key) ==
    /\ constraints[key].defined
    /\ ~constraints[key].required
    /\ constraints[key].hasValidators
    /\ vargs[key].valued
    /\ isEmpty(vargs[key].value)

PassedBranch(i, path) ==
    /\ subscriptionIsActive
    /\ OwnPassed(i, path)
    /\ cascades[i].visits[path].phase \in {"dependants", "done"}
    /\ ErrorsOf(cascades[i].changeMap.errors, NodeOf(path)) = <<>>

\* C30 as claimed: in a cascade, the dependants of a field whose validators
\* all passed are visited, whatever a field on a sibling branch has recorded:
\* each is a key of the change map.
C30_PassingBranchGoesOn ==
    \A i \in DOMAIN cascades : \A path \in DOMAIN cascades[i].visits :
        PassedBranch(i, path) =>
            \A d \in Dependants(NodeOf(path)) : ChangedIn(i, d)

(***************************************************************************)
(* C31                                                                     *)
(***************************************************************************)
\* This step is the timer shared by the validators of `key` firing: it is the
\* oldest timer, the race of `key` ends, and no validator of `key` settles.
SharedTimeoutFires(key) ==
    /\ timers # <<>>
    /\ Head(timers) = Timer("validators", key)
    /\ phase[key] = "validators"
    /\ phase'[key] = "done"
    /\ vstate'[key] = vstate[key]

\* C31: when the timeout shared by the validators of a field fires, the errors
\* the field already has are kept, in their order, and one
\* ValidationTimeoutError follows them; the validators that have settled keep
\* their outcome, and the errors of the other fields are as they were.
C31_TimeoutKeepsResults ==
    [][\A key \in Range(keys) :
          SharedTimeoutFires(key) =>
              /\ \E i \in DOMAIN vstate[key] : vstate[key][i] = "pending"
              /\ ErrorsOf(errors', key) = Append(ErrorsOf(errors, key), ValidationTimeoutError)
              /\ \A k \in Range(keys) \ {key} : ErrorsOf(errors', k) = ErrorsOf(errors, k)
              /\ vstate' = vstate]_vars

C31_Witness ==
    \E key \in Range(keys) :
        /\ vstate[key] = <<"failed", "pending">>
        /\ phase[key] = "done"
        /\ errors[key] = <<ValidationError(key, 1), ValidationTimeoutError>>
        /\ result.status = "rejected"

(***************************************************************************)
(* C32                                                                     *)
(***************************************************************************)
\* The constraint of a key of `values` declares a dependency on an identifier
\* that is no key of `values`.
DependsOnMissing ==
    \E key \in Range(keys) :
        /\ constraints[key].defined
        /\ constraints[key].hasDependencies
        /\ \E d \in Range(constraints[key].dependencies) : d \notin Range(keys)

\* C32: validate called with a constraint that declares a dependency on an
\* identifier that is no key of `values` rejects with the NoSuchNodeGraphError
\* of that identifier; the aggregate stays empty, no chain is set up and no
\* validator is called.
C32_MissingDependencyFatal ==
    (DependsOnMissing /\ result.status # "idle") =>
        /\ result.status = "rejected"
        /\ result.error.type = "NoSuchNodeGraphError"
        /\ result.error.node \notin Range(keys)
        /\ \E key \in Range(keys) :
              result.error.node \in Range(constraints[key].dependencies)
        /\ errors = EmptyMap
        /\ result.errors = EmptyMap
        /\ timers = <<>>
        /\ \A key \in Range(keys) :
              ~vargs[key].called /\ vstate[key] = <<>> /\ phase[key] = "none"

C32_Witness ==
    /\ DependsOnMissing
    /\ result.status = "rejected"
    /\ result.error = NoSuchNodeGraphError("z")
    /\ \E key \in Range(keys) : constraints[key].nValidators > 0 /\ values[key] = Hi

(***************************************************************************)
(* C33                                                                     *)
(***************************************************************************)
\* C33: on a graph without a cycle, dependantsOf(n) returns exactly the nodes
\* m other than n for which dependenciesOf(m) returns n, and dependenciesOf(n)
\* exactly the nodes m other than n for which dependantsOf(m) returns n (both
\* with leavesOnly false); either throws the NoSuchNodeGraphError of a node
\* that is absent.
C33_ReversedTraversal ==
    graphCall.op \in {"dependantsOf", "dependenciesOf"} =>
        IF graphCall.node \notin GraphNodes
        THEN graphError = NoSuchNodeGraphError(graphCall.node) /\ graphResult = <<>>
        ELSE (~GraphHasCycle /\ ~graphCall.leavesOnly) =>
                /\ graphError = NoError
                /\ Range(graphResult) =
                      {m \in GraphNodes \ {graphCall.node} :
                          graphCall.node \in Range(
                              IF graphCall.op = "dependantsOf"
                              THEN dependenciesOf(dependencyGraph, m, FALSE).result
                              ELSE dependantsOf(dependencyGraph, m, FALSE).result)}

\* dependantsOf returned a node two edges away.
C33_Witness ==
    /\ graphCall.op = "dependantsOf"
    /\ ~graphCall.leavesOnly
    /\ ~GraphHasCycle
    /\ Len(graphResult) = 2
    /\ \E m \in Range(graphResult) :
          m \notin Range(dependencyGraph.incomingEdges[graphCall.node])

(***************************************************************************)
(* C34                                                                     *)
(***************************************************************************)
\* C34 as claimed: getNodeData(node) throws NoSuchNodeGraphError exactly when
\* hasNode(node) is false, and returns the data attached to the node, absent
\* data included, when hasNode(node) is true.
C34_ThrowsIffAbsent ==
    graphCall.op = "getNodeData" =>
        IF hasNode(dependencyGraph, graphCall.node)
        THEN /\ graphError = NoError
             /\ graphResult = <<dependencyGraph.data[graphCall.node]>>
        ELSE graphError = NoSuchNodeGraphError(graphCall.node)

(***************************************************************************)
(* C35                                                                     *)
(***************************************************************************)
\* C35: the chain of every constrained field runs whatever the other fields
\* have recorded.  The validators of a field that declares some are left
\* uncalled only while its value or its dependency map is awaited or when that
\* wait timed out; once called, all of them are; every ValidationError a
\* validator rejected with is in the aggregate, and when validate rejects with
\* the aggregate, it has an entry for every field of which a validator failed.
C35_AggregatesAll ==
    \A f \in Range(keys) :
        (phase[f] # "none" /\ constraints[f].hasValidators) =>
            /\ IF vargs[f].called
               THEN Len(vstate[f]) = constraints[f].nValidators
               ELSE \/ phase[f] \in {"value", "deps"}
                    \/ ErrorsOf(errors, f) = <<ValidationTimeoutError>>
            /\ \A idx \in DOMAIN vstate[f] :
                  vstate[f][idx] = "failed" =>
                      ValidationError(f, idx) \in Range(ErrorsOf(errors, f))
            /\ (result.status = "rejected" /\ result.error = ValidationAggregateError) =>
                  /\ phase[f] = "done"
                  /\ (\E idx \in DOMAIN vstate[f] : vstate[f][idx] = "failed") =>
                        ErrorsOf(result.errors, f) # <<>>

\* A field and a dependency of it have both failed, the dependency has an
\* error in the aggregate, and validate has rejected with the errors of both.
C35_Witness ==
    \E f, d \in Range(keys) :
        /\ f # d
        /\ d \in DeclaredDependencies(f)
        /\ values[f] = PromiseOf(Hi)
        /\ vstate[d] = <<"failed">>
        /\ vstate[f] = <<"failed">>
        /\ result.status = "rejected"
        /\ result.error = ValidationAggregateError
        /\ result.errors = (d :> <<ValidationError(d, 1)>>) @@ (f :> <<ValidationError(f, 1)>>)

(***************************************************************************)
(* C36                                                                     *)
(***************************************************************************)
\* The dependencies the constraints declare form a cycle in the graph
\* liveValidate has built.
LiveGraphHasCycle ==
    \E f \in Range(keys) : f \in ReachableFrom(Dependants(f), Len(keys))

\* Cascade i has come back to a field it has passed: validateNode was called,
\* or was about to be called, for a field that is on the path of calls that
\* led to it.
WentAround(i) ==
    \/ cascades[i].truncated
    \/ \E path \in DOMAIN cascades[i].visits : Len(path) # Cardinality(Range(path))

\* C36 as claimed: for constraints whose dependencies form a cycle,
\* liveValidate throws GraphCycleError, or at the least no cascade goes around
\* the cycle.
C36_CycleFatal ==
    LiveGraphHasCycle =>
        \/ thrown.type = "GraphCycleError"
        \/ \A i \in DOMAIN cascades : ~WentAround(i)

(***************************************************************************)
(* C37                                                                     *)
(***************************************************************************)
\* C37: after any calls of addNode, addDependency and removeDependency, for
\* all nodes a and b, b is in the outgoing edge set of a if and only if a is in
\* the incoming edge set of b.
C37_EdgesMirrored ==
    \A a, b \in GraphNodes :
        b \in Range(dependencyGraph.outgoingEdges[a])
            <=> a \in Range(dependencyGraph.incomingEdges[b])

\* The last call was removeDependency(a, b): the edge from a to b is in neither
\* map, the edges of b to itself and to a are in both.
C37_Witness ==
    /\ graphCall.op = "removeDependency"
    /\ \E a, b \in GraphNodes :
          /\ a # b
          /\ graphCall.node = a /\ graphCall.other = b
          /\ b \notin Range(dependencyGraph.outgoingEdges[a])
          /\ a \notin Range(dependencyGraph.incomingEdges[b])
          /\ b \in Range(dependencyGraph.outgoingEdges[b])
          /\ b \in Range(dependencyGraph.incomingEdges[b])
          /\ a \in Range(dependencyGraph.outgoingEdges[b])
          /\ b \in Range(dependencyGraph.incomingEdges[a])

(***************************************************************************)
(* C38                                                                     *)
(***************************************************************************)
\* The calls of validateNode for field d in cascade i that have called the
\* validators of d.
ValidatingCalls(i, d) ==
    {q \in DOMAIN cascades[i].visits : NodeOf(q) = d /\ cascades[i].visits[q].called}

\* C38 as claimed: in one cascade the validators of a field are called at most
\* once, and the change map holds at most one error of each validator.
C38_AtMostOnce ==
    \A i \in DOMAIN cascades : \A d \in Range(keys) :
        /\ Cardinality(ValidatingCalls(i, d)) <= 1
        /\ \A idx \in 1..MaxValidators :
              Len(SelectSeq(ErrorsOf(cascades[i].changeMap.errors, d),
                            LAMBDA e : e = ValidationError(d, idx))) <= 1

(***************************************************************************)
(* C39                                                                     *)
(***************************************************************************)
\* The identifiers that have a constraint and are no key of `values`.
StrayFields ==
    {id \in Ids \ Range(keys) : constraints[id].defined}

\* The constraints of the keys of `values` alone.
KeyConstraints ==
    [id \in Ids |-> IF id \in Range(keys) THEN constraints[id] ELSE NoConstraint]

\* The graph validate builds for constraints cs, and the error it throws, if any.
BuiltGraph(cs) ==
    addAllConstraints(addAllNodes(NewGraph, keys, cs), keys, buildDependencyMap(cs))

\* C39: a constraint for an identifier that is no key of `values` is ignored.
\* The graph validate builds, edges and thrown error included, is the one it
\* builds without that constraint; the identifier is no node of the order, has
\* no chain, no timer and no entry in the aggregate, and the dependency maps
\* the validators of the keys are given are the same as without it.
C39_StrayConstraintIgnored ==
    /\ BuiltGraph(constraints) = BuiltGraph(KeyConstraints)
    /\ \A id \in StrayFields :
          /\ id \notin Range(order)
          /\ id \notin Pushed(St)
          /\ \A k \in DOMAIN timers : timers[k].key # id
          /\ id \notin DOMAIN errors
          /\ id \notin DOMAIN result.errors
    /\ result.status # "idle" =>
          \/ BuiltGraph(KeyConstraints).err # NoError /\ result.error = BuiltGraph(KeyConstraints).err
          \/ /\ BuiltGraph(KeyConstraints).err = NoError
             /\ Range(order) \subseteq Range(keys)
             /\ \A key \in Range(keys) :
                   vargs[key].called =>
                       vargs[key].dependencies =
                           getPromisedDependencyMap(values, buildDependencyMap(KeyConstraints), key)

\* validate resolved although the constraint of z, no key of `values`, sets
\* `required` and declares a validator and a dependency.
C39_Witness ==
    /\ constraints["z"] = Constraint(TRUE, <<"a">>, TRUE, TRUE, 1)
    /\ "z" \notin Range(keys)
    /\ result.status = "resolved"
    /\ \E key \in Range(keys) : vargs[key].called /\ vstate[key] = <<"passed">>

(***************************************************************************)
(* C40                                                                     *)
(***************************************************************************)
\* The local callback of a change event has been called at most once: at once
\* and without argument when the event came after cancellation, otherwise when
\* and only when the cascade of the event has settled.
C40_CalledOnSettling ==
    \A i \in DOMAIN cascades :
        cascades[i].local =>
            /\ Len(cascades[i].localCalls) <= 1
            /\ ~cascades[i].started => cascades[i].localCalls = <<NoArgument>>
            /\ cascades[i].started =>
                  (Len(cascades[i].localCalls) = 1
                      <=> cascades[i].status \in {"fulfilled", "rejected"})

\* A local callback that has been called is not called again.
C40_NotAgain ==
    \A i \in DOMAIN cascades :
        cascades[i].localCalls # <<>> => cascades'[i].localCalls = cascades[i].localCalls

\* C40: the local callback of every change event is called exactly once:
\* without argument at once when the subscription is cancelled already,
\* otherwise in the step in which the cascade of the event settles, whether or
\* not a later change has superseded it or the subscription was cancelled
\* meanwhile; when the declared dependencies form no cycle, every cascade
\* settles and so the callback is called.
C40_LocalExactlyOnce ==
    /\ [](C40_CalledOnSettling)
    /\ [][C40_NotAgain]_vars
    /\ \A i \in 1..MaxChanges :
          (i \in DOMAIN cascades /\ ~HasCycle)
              ~> (i \in DOMAIN cascades /\ Len(cascades[i].localCalls) = 1)

\* Two cascades of one field have called their local callback, neither has
\* called the global one: the first was superseded by the second, and the
\* subscription was cancelled while the second was in flight.
C40_Witness ==
    \E i, j \in DOMAIN cascades :
        /\ i < j
        /\ cascades[i].node = cascades[j].node
        /\ cascades[i].started /\ cascades[j].started
        /\ Len(cascades[i].localCalls) = 1
        /\ Len(cascades[j].localCalls) = 1
        /\ ~Reported(i)
        /\ ~Reported(j)
        /\ ~subscriptionIsActive
        /\ cascades[j].visits[<<cascades[j].node>>].called


====
